---------------------------- MODULE Spec2Model ----------------------------
(***************************************************************************)
(* Model of the urban traffic simulation (src/src/agents_graphical.py,     *)
(* src/src/settings.py, src/main.py): the signal controller, the vehicle   *)
(* agents, the pedestrian agents, the crossing negotiation and the shared  *)
(* world state.                                                            *)
(*                                                                         *)
(* Conventions.  Positions are pairs <<x, y>> of integer pixels; a         *)
(* movement step is the code's unit-vector step rounded to the pixel grid  *)
(* (exact on the axis-aligned edges of the graphs).  Distances are         *)
(* compared through their squares.  An agent's pending goals and message   *)
(* events are a FIFO queue (metas); the agent runs one plan at a time and  *)
(* a plan is cut into steps at its sleeps and waits.  Python's None is the *)
(* string "None".                                                          *)
(***************************************************************************)
EXTENDS Integers, Sequences, FiniteSets, TLC

VARIABLES
    estado_compartilhado,  \* main.py:21  the shared dict: key -> value
    lock,                  \* main.py:26  holder of lock_estado, or "livre"
    percepts,              \* the environment's percepts semaforo_v / semaforo_h
    controlador,           \* trocar_sinal's locals and position
    renderizador,          \* main.py: the rendering loop's position and `executando`
    carro,                 \* id -> the AgenteCarro's fields, beliefs, goals
    pessoa,                \* id -> the AgentePessoa's fields, beliefs, goals
    relogio,               \* observer: seconds since start-up (-1: not observed)
    desde_escrita,         \* observer: seconds since the last write of the lights
    entrada,               \* observer: phase index -> relogio at its last write
    apos_parada            \* observer: writes made after the liveness flag was cleared

vars == <<estado_compartilhado, lock, percepts, controlador, renderizador, carro, pessoa,
          relogio, desde_escrita, entrada, apos_parada>>

None == "None"

\* ------------------------------------------------------------------ bounds
\* The observation clock of SpecSinal stops at MaxRelogio seconds.
MaxRelogio == 45
\* The pedestrians issue no more than MaxPedidos crossing requests in all.
MaxPedidos == 3

\* ---------------------------------------------------------------- settings
LARGURA_CARRO == 40
ALTURA_CARRO == 80
\* DISTANCIA_SEGURA_SEMAFORO = ALTURA_CARRO * 0.5
DISTANCIA_SEGURA_SEMAFORO == 40
\* DISTANCIA_VERIFICACAO_TROCA_FAIXA = ALTURA_CARRO * 2.5
DISTANCIA_VERIFICACAO_TROCA_FAIXA == 200
DISTANCIA_SEGURA_CARRO_PEDESTRE == 150

PONTOS_ESPERA_PEDESTRE == {"P1", "P4", "P2", "P3"}

ZONA_PASSADEIRA_1 == <<180, 210, 243, 449>>
ZONA_PASSADEIRA_2 == <<505, 535, 235, 449>>
ZONA_PASSADEIRA_3 == <<195, 520, 434, 464>>
ZONA_PASSADEIRA_4 == <<195, 520, 220, 258>>

PONTOS_AVALIACAO_CARRO ==
    {"V_MID_L", "V_MID_C", "V_MID_R", "V_EVAL_C", "V_EVAL_R",
     "H_MID_L", "H_MID_R", "PX1_EVAL_H", "PX1_EVAL_V"}

MAPA_AVALIACAO_PASSADEIRA ==
    [PX1_EVAL_H |-> ZONA_PASSADEIRA_1, PX1_EVAL_V |-> ZONA_PASSADEIRA_1,
     H_MID_L |-> ZONA_PASSADEIRA_2, H_MID_R |-> ZONA_PASSADEIRA_2,
     V_MID_L |-> ZONA_PASSADEIRA_3, V_MID_C |-> ZONA_PASSADEIRA_3,
     V_MID_R |-> ZONA_PASSADEIRA_3,
     V_EVAL_C |-> ZONA_PASSADEIRA_4, V_EVAL_R |-> ZONA_PASSADEIRA_4]

PONTOS_DE_PASSAGEM_PEDESTRES ==
    [P1 |-> <<195, 449>>, P2 |-> <<520, 449>>, P3 |-> <<520, 235>>,
     P4 |-> <<195, 243>>, P5 |-> <<5, 244>>, P6 |-> <<195, 10>>,
     P7 |-> <<711, 248>>, P8 |-> <<510, 10>>, P9 |-> <<195, 690>>,
     P10 |-> <<5, 449>>, P11 |-> <<715, 449>>, P12 |-> <<520, 689>>]

CAMINHOS_PEDESTRES ==
    [P1 |-> <<"P4", "P2", "P9", "P10">>, P2 |-> <<"P3", "P1", "P11", "P12">>,
     P3 |-> <<"P2", "P4", "P7", "P8">>, P4 |-> <<"P1", "P3", "P5", "P6">>,
     P5 |-> <<"P4">>, P6 |-> <<"P4">>, P7 |-> <<"P3">>, P8 |-> <<"P3">>,
     P9 |-> <<"P1">>, P10 |-> <<"P1">>, P11 |-> <<"P2">>, P12 |-> <<"P2">>]

PONTOS_DE_PARADA == {"V_MID_L", "V_MID_C", "V_MID_R", "H_MID_L", "H_MID_R"}
PONTOS_INICIAIS_VERTICAIS == {"V_START_L", "V_START_C", "V_START_R"}
PONTOS_INICIAIS_HORIZONTAIS == {"H_START_R", "H_START_L"}

PONTOS_DE_PASSAGEM_CARROS ==
    [V_START_L |-> <<300, 720>>, V_START_C |-> <<360, 720>>, V_START_R |-> <<420, 720>>,
     V_CHANGE_L |-> <<300, 600>>, V_CHANGE_C |-> <<360, 600>>, V_CHANGE_R |-> <<420, 600>>,
     V_MID_L |-> <<300, 490>>, V_MID_C |-> <<360, 490>>, V_MID_R |-> <<420, 490>>,
     V_INT_L |-> <<300, 387>>, V_INT_C |-> <<360, 387>>, V_INT_R |-> <<420, 387>>,
     V_EVAL_C |-> <<360, 300>>, V_EVAL_R |-> <<420, 300>>,
     V_END_C |-> <<360, 0>>, V_END_R |-> <<420, 0>>,
     H_START_R |-> <<720, 348>>, H_START_L |-> <<719, 387>>,
     H_CHANGE_R |-> <<650, 348>>, H_CHANGE_L |-> <<650, 387>>,
     H_MID_R |-> <<550, 348>>, H_MID_L |-> <<550, 387>>,
     H_INT_R |-> <<420, 348>>, H_INT_L |-> <<420, 387>>,
     PX1_EVAL_H |-> <<240, 387>>, PX1_EVAL_V |-> <<240, 387>>,
     H_END_L |-> <<0, 387>>]

CAMINHOS_CARROS ==
    [V_START_L |-> <<"V_CHANGE_L">>, V_START_C |-> <<"V_CHANGE_C">>,
     V_START_R |-> <<"V_CHANGE_R">>,
     V_CHANGE_L |-> <<"V_MID_L", "V_CHANGE_C">>,
     V_CHANGE_C |-> <<"V_MID_C", "V_CHANGE_L", "V_CHANGE_R">>,
     V_CHANGE_R |-> <<"V_MID_R", "V_CHANGE_C">>,
     V_MID_L |-> <<"V_INT_L">>, V_MID_C |-> <<"V_INT_C">>, V_MID_R |-> <<"V_INT_R">>,
     V_INT_L |-> <<"PX1_EVAL_V">>, V_INT_C |-> <<"V_EVAL_C">>, V_INT_R |-> <<"V_EVAL_R">>,
     V_EVAL_C |-> <<"V_END_C">>, V_EVAL_R |-> <<"V_END_R">>,
     H_START_R |-> <<"H_CHANGE_R">>, H_START_L |-> <<"H_CHANGE_L">>,
     H_CHANGE_R |-> <<"H_MID_R", "H_CHANGE_L">>,
     H_CHANGE_L |-> <<"H_MID_L", "H_CHANGE_R">>,
     H_MID_R |-> <<"H_INT_R">>, H_MID_L |-> <<"H_INT_L">>,
     H_INT_R |-> <<"V_END_R">>, H_INT_L |-> <<"PX1_EVAL_H">>,
     PX1_EVAL_H |-> <<"H_END_L">>, PX1_EVAL_V |-> <<"H_END_L">>,
     V_END_C |-> <<>>, V_END_R |-> <<>>, H_END_L |-> <<>>]

\* ------------------------------------------------------------ identities
\* main.py:245 / main.py:262: f"Carro_{i+1}", f"Pessoa_{i+1}"
NomeCarro == <<"Carro_1", "Carro_2", "Carro_3">>
NomePessoa == <<"Pessoa_1", "Pessoa_2">>
\* the key f"{id}_pos" of an agent
ChavePos ==
    [Carro_1 |-> "Carro_1_pos", Carro_2 |-> "Carro_2_pos", Carro_3 |-> "Carro_3_pos",
     Pessoa_1 |-> "Pessoa_1_pos", Pessoa_2 |-> "Pessoa_2_pos"]

Carros == DOMAIN carro
Pessoas == DOMAIN pessoa

\* ------------------------------------------------------------- arithmetic
Abs(n) == IF n < 0 THEN -n ELSE n
Sinal(n) == IF n < 0 THEN -1 ELSE IF n > 0 THEN 1 ELSE 0
Min2(a, b) == IF a < b THEN a ELSE b

\* the square of calcular_distancia(pos1, pos2)
Dist2(pos1, pos2) ==
    (pos1[1] - pos2[1]) * (pos1[1] - pos2[1]) + (pos1[2] - pos2[2]) * (pos1[2] - pos2[2])

\* calcular_distancia(pos1, pos2) < k, for an integer k >= 0
DistMenor(pos1, pos2, k) == Dist2(pos1, pos2) < k * k

\* calcular_distancia(pos1, pos2) < velocidade * 0.5
DentroDoLimiar(pos1, pos2, velocidade) == 4 * Dist2(pos1, pos2) < velocidade * velocidade

\* floor(sqrt(n)), by bisection on the result
RECURSIVE RaizEntre(_, _, _)
RaizEntre(n, lo, hi) ==
    IF hi - lo <= 1 THEN (IF hi * hi <= n THEN hi ELSE lo)
    ELSE LET mid == (lo + hi) \div 2
         IN  IF mid * mid <= n THEN RaizEntre(n, mid, hi) ELSE RaizEntre(n, lo, mid)
Raiz(n) == RaizEntre(n, 0, 1024)

\* n / d rounded to the nearest integer (d > 0)
Arredonda(n, d) == IF n >= 0 THEN (2 * n + d) \div (2 * d) ELSE -((2 * (-n) + d) \div (2 * d))

\* One movement step: pos + ((alvo - pos) / distancia) * velocidade,
\* agents_graphical.py:455-461 and 679-687.
Passo(pos, alvo, velocidade) ==
    LET dx == alvo[1] - pos[1]
        dy == alvo[2] - pos[2]
    IN  IF dx = 0 THEN <<pos[1], pos[2] + Sinal(dy) * velocidade>>
        ELSE IF dy = 0 THEN <<pos[1] + Sinal(dx) * velocidade, pos[2]>>
        ELSE LET d == Raiz(dx * dx + dy * dy)
             IN  <<pos[1] + Arredonda(dx * velocidade, d),
                   pos[2] + Arredonda(dy * velocidade, d)>>

\* xmin <= pos[0] <= xmax and ymin <= pos[1] <= ymax
DentroDaZona(pos, zona) ==
    /\ zona[1] <= pos[1] /\ pos[1] <= zona[2]
    /\ zona[3] <= pos[2] /\ pos[2] <= zona[4]

\* ------------------------------------------------------- vehicle helpers
\* name.startswith("V_") / name.startswith("H_") over the names in use
ComecaComV(nome) ==
    nome \in {"V_START_L", "V_START_C", "V_START_R", "V_CHANGE_L", "V_CHANGE_C",
              "V_CHANGE_R", "V_MID_L", "V_MID_C", "V_MID_R", "V_INT_L", "V_INT_C",
              "V_INT_R", "V_EVAL_C", "V_EVAL_R", "V_END_C", "V_END_R"}
ComecaComH(nome) ==
    nome \in {"H_START_R", "H_START_L", "H_CHANGE_R", "H_CHANGE_L", "H_MID_R",
              "H_MID_L", "H_INT_R", "H_INT_L", "H_END_L"}
\* names that are no key of CAMINHOS_CARROS nor of PONTOS_DE_PASSAGEM_CARROS
NomesForaDoGrafo == {"V_END_L", "X"}
\* nome.startswith("V_END"), nome.startswith("H_END")
ComecaComVEnd(nome) == nome \in {"V_END_C", "V_END_R", "V_END_L"}
ComecaComHEnd(nome) == nome \in {"H_END_L"}
\* name[-1] and name[:-1]
UltimaLetra(nome) ==
    IF nome \in {"V_START_L", "V_CHANGE_L", "V_MID_L", "V_INT_L", "H_START_L",
                 "H_CHANGE_L", "H_MID_L", "H_INT_L", "H_END_L"} THEN "L"
    ELSE IF nome \in {"V_START_C", "V_CHANGE_C", "V_MID_C", "V_INT_C", "V_EVAL_C",
                      "V_END_C"} THEN "C"
    ELSE IF nome \in {"PX1_EVAL_H"} THEN "H"
    ELSE IF nome \in {"PX1_EVAL_V"} THEN "V"
    ELSE "R"
SemUltimaLetra(nome) ==
    IF nome \in {"V_START_L", "V_START_C", "V_START_R"} THEN "V_START_"
    ELSE IF nome \in {"V_CHANGE_L", "V_CHANGE_C", "V_CHANGE_R"} THEN "V_CHANGE_"
    ELSE IF nome \in {"V_MID_L", "V_MID_C", "V_MID_R"} THEN "V_MID_"
    ELSE IF nome \in {"V_INT_L", "V_INT_C", "V_INT_R"} THEN "V_INT_"
    ELSE IF nome \in {"V_EVAL_C", "V_EVAL_R"} THEN "V_EVAL_"
    ELSE IF nome \in {"V_END_C", "V_END_R"} THEN "V_END_"
    ELSE IF nome \in {"H_START_R", "H_START_L"} THEN "H_START_"
    ELSE IF nome \in {"H_CHANGE_R", "H_CHANGE_L"} THEN "H_CHANGE_"
    ELSE IF nome \in {"H_MID_R", "H_MID_L"} THEN "H_MID_"
    ELSE IF nome \in {"H_INT_R", "H_INT_L"} THEN "H_INT_"
    ELSE IF nome \in {"PX1_EVAL_H", "PX1_EVAL_V"} THEN "PX1_EVAL_"
    ELSE "H_END_"

\* the index of an agent in the shared dict's insertion order (main.py:240-271)
Ordem(id) == CHOOSE i \in 1..(Len(NomeCarro) + Len(NomePessoa)) :
                (NomeCarro \o NomePessoa)[i] = id

\* the other vehicles whose position is in the snapshot of the shared state
OutrosCarros(c) == {o \in Carros \ {c} : ChavePos[o] \in DOMAIN estado_compartilhado}
PosDe(id) == estado_compartilhado[ChavePos[id]]

\* the nearest to `alvo` among `candidatos` (the first in dict order on a tie)
MaisProximo(candidatos, alvo) ==
    CHOOSE o \in candidatos : \A u \in candidatos :
        \/ Dist2(PosDe(o), alvo) < Dist2(PosDe(u), alvo)
        \/ Dist2(PosDe(o), alvo) = Dist2(PosDe(u), alvo) /\ Ordem(o) <= Ordem(u)

\* encontrar_carro_a_frente: the queue ahead, between self and the stop line
CarrosNaFila(eu, c, ponto_parada_nome) ==
    LET pos_parada == PONTOS_DE_PASSAGEM_CARROS[ponto_parada_nome]
        mesma_faixa(pos_outro) ==
            IF ComecaComV(ponto_parada_nome)
               /\ 2 * Abs(pos_outro[1] - eu.posicao[1]) < LARGURA_CARRO
            THEN pos_outro[2] < eu.posicao[2] /\ pos_outro[2] >= pos_parada[2]
            ELSE IF ComecaComH(ponto_parada_nome)
                    /\ 4 * Abs(pos_outro[2] - eu.posicao[2]) < ALTURA_CARRO
            THEN pos_outro[1] < eu.posicao[1] /\ pos_outro[1] >= pos_parada[1]
            ELSE FALSE
    IN  {o \in OutrosCarros(c) :
            /\ mesma_faixa(PosDe(o))
            /\ Dist2(PosDe(o), pos_parada) < Dist2(eu.posicao, pos_parada)}

encontrar_carro_a_frente(eu, c, ponto_parada_nome) ==
    LET fila == CarrosNaFila(eu, c, ponto_parada_nome)
    IN  IF fila = {} THEN None
        ELSE PosDe(MaisProximo(fila, PONTOS_DE_PASSAGEM_CARROS[ponto_parada_nome]))

\* dist_segura_frente of encontrar_obstaculo_imediato: ALTURA_CARRO * 0.9 on a
\* vertical heading, LARGURA_CARRO * 0.9 on a horizontal one
DistSeguraFrenteV == 72
DistSeguraFrenteH == 36

\* encontrar_obstaculo_imediato: is another vehicle ahead, in the lane, closer
\* than the forward safety distance?  The heading is taken towards the
\* waypoint ponto_alvo_atual.
encontrar_obstaculo_imediato(eu, c) ==
    IF eu.ponto_alvo_atual = None THEN FALSE
    ELSE
    LET pos_alvo == PONTOS_DE_PASSAGEM_CARROS[eu.ponto_alvo_atual]
        dx == pos_alvo[1] - eu.posicao[1]
        dy == pos_alvo[2] - eu.posicao[2]
        is_vertical == Abs(dy) > Abs(dx)
        is_horizontal == Abs(dx) > Abs(dy)
        dist_segura_frente == IF is_horizontal THEN DistSeguraFrenteH ELSE DistSeguraFrenteV
        \* twice dist_segura_lado
        dist_segura_lado2 == IF is_horizontal THEN ALTURA_CARRO ELSE LARGURA_CARRO
        a_frente_na_faixa(pos_outro) ==
            IF is_vertical
            THEN /\ 2 * Abs(pos_outro[1] - eu.posicao[1]) < dist_segura_lado2
                 /\ IF dy < 0 THEN pos_outro[2] < eu.posicao[2]
                              ELSE pos_outro[2] > eu.posicao[2]
            ELSE IF is_horizontal
            THEN /\ 2 * Abs(pos_outro[2] - eu.posicao[2]) < dist_segura_lado2
                 /\ IF dx < 0 THEN pos_outro[1] < eu.posicao[1]
                              ELSE pos_outro[1] > eu.posicao[1]
            ELSE FALSE
        perto == {o \in OutrosCarros(c) :
                    /\ ~ (Dist2(eu.posicao, PosDe(o)) > 4 * dist_segura_frente * dist_segura_frente)
                    /\ a_frente_na_faixa(PosDe(o))}
    IN  /\ perto # {}
        /\ DistMenor(eu.posicao, PosDe(MaisProximo(perto, eu.posicao)), dist_segura_frente)

\* verificar_faixa_alvo without the loop of lines 232-241
faixa_sempre_livre(eu, c, ponto_atual, ponto_alvo_troca) == TRUE

\* verificar_faixa_alvo: TRUE when the destination lane is free
verificar_faixa_alvo(eu, c, ponto_atual, ponto_alvo_troca) ==
    LET faixa_alvo_x == PONTOS_DE_PASSAGEM_CARROS[ponto_alvo_troca][1]
        faixa_alvo_y == PONTOS_DE_PASSAGEM_CARROS[ponto_alvo_troca][2]
        ocupa(pos_outro) ==
            /\ DistMenor(eu.posicao, pos_outro, DISTANCIA_VERIFICACAO_TROCA_FAIXA)
            /\ IF ComecaComV(ponto_atual) /\ 2 * Abs(pos_outro[1] - faixa_alvo_x) < LARGURA_CARRO
               THEN /\ pos_outro[2] > eu.posicao[2] - ALTURA_CARRO
                    /\ pos_outro[2] < eu.posicao[2] + DISTANCIA_VERIFICACAO_TROCA_FAIXA
               ELSE IF ComecaComH(ponto_atual) /\ 2 * Abs(pos_outro[2] - faixa_alvo_y) < ALTURA_CARRO
               THEN /\ pos_outro[1] > eu.posicao[1] - LARGURA_CARRO
                    /\ pos_outro[1] < eu.posicao[1] + DISTANCIA_VERIFICACAO_TROCA_FAIXA
               ELSE FALSE
    IN  \A o \in OutrosCarros(c) : ~ ocupa(PosDe(o))

\* verificar_pedestre_na_passadeira: is any pedestrian inside the zone of the
\* evaluation point?
verificar_pedestre_na_passadeira(ponto_avaliacao_nome) ==
    /\ ponto_avaliacao_nome \in DOMAIN MAPA_AVALIACAO_PASSADEIRA
    /\ \E p \in Pessoas :
          /\ ChavePos[p] \in DOMAIN estado_compartilhado
          /\ DentroDaZona(PosDe(p), MAPA_AVALIACAO_PASSADEIRA[ponto_avaliacao_nome])

\* an entry of an agent's queue of goals and message events
Meta(tipo, a, b) == [tipo |-> tipo, a |-> a, b |-> b]
MetaDirigir == Meta("dirigir_para_proximo_ponto", None, None)
\* the event the agent takes up next, "" when its queue is empty
ProximaMeta(agente) == IF agente.metas = <<>> THEN "" ELSE Head(agente.metas).tipo

\* ------------------------------------------------------ signal controller
\* agents_graphical.py:69
estados_trocados ==
    <<<<"verde", "vermelho">>, <<"vermelho", "verde">>,
      <<"amarelo", "vermelho">>, <<"vermelho", "amarelo">>>>
estados ==
    <<<<"verde", "vermelho">>, <<"amarelo", "vermelho">>,
      <<"vermelho", "verde">>, <<"vermelho", "amarelo">>>>
\* agents_graphical.py:70
tempos_curtos == <<4, 2, 4, 2>>
tempos == <<5, 2, 5, 2>>

ParSemaforo == <<estado_compartilhado["estado_semaforo_v"],
                 estado_compartilhado["estado_semaforo_h"]>>

\* Counts a write of a light or of a position made after the flag was cleared.
ContaEscrita(quem) ==
    IF estado_compartilhado["simulacao_ativa"] THEN apos_parada
    ELSE [apos_parada EXCEPT ![quem] = Min2(@ + 1, 2)]

\* trocar_sinal, lines 74-79: self.change(percep_semaforo_v, estado_v)
TrocarPerceptV ==
    /\ controlador.pc = "change_v"
    /\ percepts' = [percepts EXCEPT
                      !.semaforo_v = estados[controlador.indice_estado_atual][1]]
    /\ controlador' = [controlador EXCEPT !.pc = "change_h"]
    /\ UNCHANGED <<estado_compartilhado, lock, renderizador, carro, pessoa,
                   relogio, desde_escrita, entrada, apos_parada>>

\* trocar_sinal, line 80: self.change(percep_semaforo_h, estado_h)
TrocarPerceptH ==
    /\ controlador.pc = "change_h"
    /\ percepts' = [percepts EXCEPT
                      !.semaforo_h = estados[controlador.indice_estado_atual][2]]
    /\ controlador' = [controlador EXCEPT !.pc = "escrever"]
    /\ UNCHANGED <<estado_compartilhado, lock, renderizador, carro, pessoa,
                   relogio, desde_escrita, entrada, apos_parada>>

\* trocar_sinal, line 82: `with self.lock:` is entered.
TomarTrancaSinal ==
    /\ controlador.pc = "escrever"
    /\ lock = "livre"
    /\ lock' = "Cruzamento"
    /\ controlador' = [controlador EXCEPT !.pc = "na_tranca"]
    /\ UNCHANGED <<estado_compartilhado, percepts, renderizador, carro, pessoa,
                   relogio, desde_escrita, entrada, apos_parada>>

\* the write of lines 82-84 in a `with` block that also holds the sleep of line 85
EscreverEstadoSemSoltar ==
    /\ controlador.pc = "na_tranca"
    /\ lock = "Cruzamento"
    /\ LET i == controlador.indice_estado_atual
           novo == [estado_compartilhado EXCEPT
                      !["estado_semaforo_v"] = estados[i][1],
                      !["estado_semaforo_h"] = estados[i][2]]
           mudou == <<novo["estado_semaforo_v"], novo["estado_semaforo_h"]>> # ParSemaforo
       IN  /\ estado_compartilhado' = novo
           /\ controlador' = [controlador EXCEPT !.pc = "dormindo",
                                                 !.tempo_restante = tempos[i]]
           /\ desde_escrita' = IF mudou /\ relogio >= 0 THEN 0 ELSE desde_escrita
           /\ entrada' = IF relogio >= 0 THEN [entrada EXCEPT ![i] = relogio] ELSE entrada
           /\ apos_parada' = IF mudou THEN ContaEscrita("Cruzamento") ELSE apos_parada
    /\ lock' = "Cruzamento"
    /\ UNCHANGED <<percepts, renderizador, carro, pessoa, relogio>>

\* trocar_sinal, lines 83-85: both colours are written, the lock is released
\* at the end of the with block, then time.sleep(tempo_espera) starts.
EscreverEstado ==
    /\ controlador.pc = "na_tranca"
    /\ lock = "Cruzamento"
    /\ LET i == controlador.indice_estado_atual
           novo == [estado_compartilhado EXCEPT
                      !["estado_semaforo_v"] = estados[i][1],
                      !["estado_semaforo_h"] = estados[i][2]]
           mudou == <<novo["estado_semaforo_v"], novo["estado_semaforo_h"]>> # ParSemaforo
       IN  /\ estado_compartilhado' = novo
           /\ controlador' = [controlador EXCEPT !.pc = "dormindo",
                                                 !.tempo_restante = tempos[i]]
           /\ desde_escrita' = IF mudou /\ relogio >= 0 THEN 0 ELSE desde_escrita
           /\ entrada' = IF relogio >= 0 THEN [entrada EXCEPT ![i] = relogio] ELSE entrada
           /\ apos_parada' = IF mudou THEN ContaEscrita("Cruzamento") ELSE apos_parada
    /\ lock' = "livre"
    /\ UNCHANGED <<percepts, renderizador, carro, pessoa, relogio>>

\* trocar_sinal, line 86, once the sleep has run out.
Acordar ==
    /\ controlador.pc = "dormindo"
    /\ controlador.tempo_restante = 0
    /\ controlador' = [controlador EXCEPT
                         !.pc = "change_v",
                         !.indice_estado_atual = (@ % Len(estados)) + 1]
    /\ UNCHANGED <<estado_compartilhado, lock, percepts, renderizador, carro, pessoa,
                   relogio, desde_escrita, entrada, apos_parada>>

\* ------------------------------------------------------------------- time
\* The timed waits that are running: the controller's sleep and each
\* pedestrian's wait for a response (seconds left).
Temporizadores ==
    (IF controlador.pc = "dormindo" THEN {controlador.tempo_restante} ELSE {})
    \cup {pessoa[p].espera_restante : p \in {q \in Pessoas : pessoa[q].pc = "aguardando"}}

\* Time passes until the next timed wait runs out.
PassarTempo ==
    /\ Temporizadores # {}
    /\ \A t \in Temporizadores : t > 0
    /\ relogio < MaxRelogio
    \* a plan that neither sleeps nor waits takes no time
    /\ \A p \in Pessoas :
          pessoa[p].pc = "livre" =>
             ProximaMeta(pessoa[p]) \notin {"pedir_permissao_travessia", "aguardar_resposta"}
    /\ LET d == CHOOSE t \in Temporizadores : \A u \in Temporizadores : t <= u
       IN  /\ controlador' = IF controlador.pc = "dormindo"
                             THEN [controlador EXCEPT !.tempo_restante = @ - d]
                             ELSE controlador
           /\ pessoa' = [p \in Pessoas |->
                           IF pessoa[p].pc = "aguardando"
                           THEN [pessoa[p] EXCEPT
                                    !.espera_restante = @ - d,
                                    !.desde_pedido = IF @ >= 0 THEN @ + d ELSE @]
                           ELSE pessoa[p]]
           /\ relogio' = IF relogio >= 0 THEN relogio + d ELSE relogio
           /\ desde_escrita' = IF relogio >= 0 THEN desde_escrita + d ELSE desde_escrita
    /\ UNCHANGED <<estado_compartilhado, lock, percepts, renderizador, carro,
                   entrada, apos_parada>>

\* --------------------------------------------------------------- renderer
\* main.py:326-332: the events of one frame are read; a QUIT event sets
\* `executando` to False and goes on to clear the liveness flag.
RenderizadorEventos ==
    /\ renderizador.pc = "eventos"
    /\ \E quit \in BOOLEAN :
          renderizador' = IF quit THEN [pc |-> "sair", executando |-> FALSE]
                          ELSE [renderizador EXCEPT !.pc = "copiar"]
    /\ UNCHANGED <<estado_compartilhado, lock, percepts, controlador, carro, pessoa,
                   relogio, desde_escrita, entrada, apos_parada>>

\* main.py:330 and main.py:335: `with lock_estado:` is entered.
RenderizadorTomarTranca ==
    /\ renderizador.pc \in {"sair", "copiar"}
    /\ lock = "livre"
    /\ lock' = "Renderizador"
    /\ renderizador' = [renderizador EXCEPT
                           !.pc = IF @ = "sair" THEN "na_tranca_sair" ELSE "na_tranca_copia"]
    /\ UNCHANGED <<estado_compartilhado, percepts, controlador, carro, pessoa,
                   relogio, desde_escrita, entrada, apos_parada>>

\* main.py:330-332: the liveness flag is cleared under the lock.
EncerrarSimulacao ==
    /\ renderizador.pc = "na_tranca_sair"
    /\ lock = "Renderizador"
    /\ estado_compartilhado' = [estado_compartilhado EXCEPT !["simulacao_ativa"] = FALSE]
    /\ lock' = "livre"
    /\ renderizador' = [renderizador EXCEPT !.pc = "copiar"]
    /\ UNCHANGED <<percepts, controlador, carro, pessoa,
                   relogio, desde_escrita, entrada, apos_parada>>

\* main.py:335: the shared state is copied under the lock; the frame is then
\* drawn from the copy and clock.tick(60) sleeps (lines 337-357).
CopiarEstado ==
    /\ renderizador.pc = "na_tranca_copia"
    /\ lock = "Renderizador"
    /\ lock' = "livre"
    /\ renderizador' = [renderizador EXCEPT !.pc = "desenhar"]
    /\ UNCHANGED <<estado_compartilhado, percepts, controlador, carro, pessoa,
                   relogio, desde_escrita, entrada, apos_parada>>

\* main.py:325: clock.tick(60) is over and `while executando` is tested.
RenderizadorProximoQuadro ==
    /\ renderizador.pc = "desenhar"
    /\ renderizador' = [renderizador EXCEPT
                           !.pc = IF renderizador.executando THEN "eventos" ELSE "fim"]
    /\ UNCHANGED <<estado_compartilhado, lock, percepts, controlador, carro, pessoa,
                   relogio, desde_escrita, entrada, apos_parada>>

\* ---------------------------------------------------------------- vehicle
\* Leaves the running plan: the goal at the head of the queue is done and
\* `nova` is added (self.add(Goal(...)) as the plan's last statement).
FimDoPlano(eu, nova) ==
    [eu EXCEPT !.pc = "livre", !.metas = Append(Tail(eu.metas), nova),
               !.ponto_alvo_nome = None, !.posicao_alvo = None,
               !.parar_no_semaforo = FALSE]

\* the args of self.get(Belief(NOME_CRENCA_CARRO_CEDENDO, Any))
CrencaCedendo(eu) == CHOOSE b \in eu.cedendo : TRUE
\* the args of self.get(Belief(NOME_CRENCA_CARRO_PEDESTRE_PEDINDO, Any))
CrencaPedindo(eu) == CHOOSE b \in eu.pedindo : TRUE

\* lines 410-432 without the test of lines 423-432 for a zone already passed
PontoDeAvaliacaoSemFronteira(eu) ==
    LET relevante == IF eu.ponto_alvo_nome \in PONTOS_AVALIACAO_CARRO
                     THEN eu.ponto_alvo_nome ELSE eu.ponto_atual
    IN  IF /\ (eu.ponto_atual \in PONTOS_AVALIACAO_CARRO
               \/ eu.ponto_alvo_nome \in PONTOS_AVALIACAO_CARRO)
           /\ DistMenor(eu.posicao, eu.posicao_alvo, DISTANCIA_SEGURA_CARRO_PEDESTRE)
           /\ relevante \in DOMAIN MAPA_AVALIACAO_PASSADEIRA
        THEN relevante ELSE None

\* plano_dirigir, lines 410-432: the evaluation point whose zone the vehicle
\* is approaching and has not passed yet, or None
PontoDeAvaliacaoRelevante(eu) ==
    LET relevante == IF eu.ponto_alvo_nome \in PONTOS_AVALIACAO_CARRO
                     THEN eu.ponto_alvo_nome ELSE eu.ponto_atual
        zona == MAPA_AVALIACAO_PASSADEIRA[relevante]
        horizontal == ComecaComH(relevante) \/ relevante = "PX1_EVAL_H"
        vertical == ComecaComV(relevante) \/ relevante = "PX1_EVAL_V"
    IN  IF /\ (eu.ponto_atual \in PONTOS_AVALIACAO_CARRO
               \/ eu.ponto_alvo_nome \in PONTOS_AVALIACAO_CARRO)
           /\ DistMenor(eu.posicao, eu.posicao_alvo, DISTANCIA_SEGURA_CARRO_PEDESTRE)
           /\ relevante \in DOMAIN MAPA_AVALIACAO_PASSADEIRA
           /\ IF horizontal THEN eu.posicao[1] >= zona[1]
              ELSE vertical /\ eu.posicao[2] >= zona[3]
        THEN relevante ELSE None

\* the loop of lines 389-465 and the arrival without the write of lines 467-468
IteracaoCarroSemEscrita(eu, c) ==
    LET avaliacao == PontoDeAvaliacaoRelevante(eu)
    IN  IF DentroDoLimiar(eu.posicao, eu.posicao_alvo, eu.velocidade)
        THEN [publica |-> FALSE,
              eu |-> IF eu.parar_no_semaforo
                     THEN FimDoPlano([eu EXCEPT !.posicao = eu.posicao_alvo], MetaDirigir)
                     ELSE FimDoPlano([eu EXCEPT !.posicao = eu.posicao_alvo,
                                                !.ponto_anterior = eu.ponto_atual,
                                                !.ponto_atual = eu.ponto_alvo_nome,
                                                !.ponto_alvo_atual = None], MetaDirigir)]
        ELSE IF encontrar_obstaculo_imediato(eu, c)
        THEN [publica |-> FALSE, eu |-> FimDoPlano(eu, MetaDirigir)]
        ELSE IF eu.cedendo # {}
        THEN [publica |-> FALSE,
              eu |-> FimDoPlano([eu EXCEPT !.ponto_alvo_atual = None],
                                Meta("monitorar_pedestre_cedendo",
                                     CrencaCedendo(eu)[1], CrencaCedendo(eu)[2]))]
        ELSE IF avaliacao # None /\ eu.pedindo # {}
        THEN [publica |-> FALSE,
              eu |-> FimDoPlano([eu EXCEPT !.ponto_alvo_atual = None],
                                Meta("avaliar_pedido_travessia", CrencaPedindo(eu), avaliacao))]
        ELSE IF avaliacao # None /\ verificar_pedestre_na_passadeira(avaliacao)
        THEN [publica |-> FALSE, eu |-> [eu EXCEPT !.pc = "espera_radar"]]
        ELSE [publica |-> TRUE,
              eu |-> [eu EXCEPT !.pc = "movendo",
                                !.posicao = Passo(eu.posicao, eu.posicao_alvo, eu.velocidade)]]

\* the loop of lines 389-465 with the arrival of lines 467-477 taking the
\* branch of lines 473-476 also when parar_no_semaforo is set
IteracaoCarroSemParada(eu, c) ==
    LET avaliacao == PontoDeAvaliacaoRelevante(eu)
    IN  IF DentroDoLimiar(eu.posicao, eu.posicao_alvo, eu.velocidade)
        THEN [publica |-> TRUE,
              eu |-> FimDoPlano([eu EXCEPT !.posicao = eu.posicao_alvo,
                                           !.ponto_anterior = eu.ponto_atual,
                                           !.ponto_atual = eu.ponto_alvo_nome,
                                           !.ponto_alvo_atual = None], MetaDirigir)]
        ELSE IF encontrar_obstaculo_imediato(eu, c)
        THEN [publica |-> FALSE, eu |-> FimDoPlano(eu, MetaDirigir)]
        ELSE IF eu.cedendo # {}
        THEN [publica |-> FALSE,
              eu |-> FimDoPlano([eu EXCEPT !.ponto_alvo_atual = None],
                                Meta("monitorar_pedestre_cedendo",
                                     CrencaCedendo(eu)[1], CrencaCedendo(eu)[2]))]
        ELSE IF avaliacao # None /\ eu.pedindo # {}
        THEN [publica |-> FALSE,
              eu |-> FimDoPlano([eu EXCEPT !.ponto_alvo_atual = None],
                                Meta("avaliar_pedido_travessia", CrencaPedindo(eu), avaliacao))]
        ELSE IF avaliacao # None /\ verificar_pedestre_na_passadeira(avaliacao)
        THEN [publica |-> FALSE, eu |-> [eu EXCEPT !.pc = "espera_radar"]]
        ELSE [publica |-> TRUE,
              eu |-> [eu EXCEPT !.pc = "movendo",
                                !.posicao = Passo(eu.posicao, eu.posicao_alvo, eu.velocidade)]]

\* One pass of the loop of plano_dirigir (lines 391-465), and lines 467-477
\* when the loop ends.  Gives the vehicle afterwards and whether it wrote its
\* position to the shared state.  The field renasce of a vehicle tells
\* whether the scenario follows it past the end of its first route.
IteracaoCarro(eu, c) ==
    LET avaliacao == PontoDeAvaliacaoRelevante(eu)
    IN  IF DentroDoLimiar(eu.posicao, eu.posicao_alvo, eu.velocidade)
        THEN \* arrival: snap, publish, update the waypoints
             [publica |-> TRUE,
              eu |-> IF eu.parar_no_semaforo
                     THEN FimDoPlano([eu EXCEPT !.posicao = eu.posicao_alvo], MetaDirigir)
                     ELSE FimDoPlano([eu EXCEPT !.posicao = eu.posicao_alvo,
                                                !.ponto_anterior = eu.ponto_atual,
                                                !.ponto_atual = eu.ponto_alvo_nome,
                                                !.ponto_alvo_atual = None], MetaDirigir)]
        ELSE IF encontrar_obstaculo_imediato(eu, c)
        THEN [publica |-> FALSE, eu |-> FimDoPlano(eu, MetaDirigir)]
        ELSE IF eu.cedendo # {}
        THEN [publica |-> FALSE,
              eu |-> FimDoPlano([eu EXCEPT !.ponto_alvo_atual = None],
                                Meta("monitorar_pedestre_cedendo",
                                     CrencaCedendo(eu)[1], CrencaCedendo(eu)[2]))]
        ELSE IF avaliacao # None /\ eu.pedindo # {}
        THEN [publica |-> FALSE,
              eu |-> FimDoPlano([eu EXCEPT !.ponto_alvo_atual = None],
                                Meta("avaliar_pedido_travessia", CrencaPedindo(eu), avaliacao))]
        ELSE IF avaliacao # None /\ verificar_pedestre_na_passadeira(avaliacao)
        THEN \* self.wait(0.2), then the goal is added again
             [publica |-> FALSE, eu |-> [eu EXCEPT !.pc = "espera_radar"]]
        ELSE [publica |-> TRUE,
              eu |-> [eu EXCEPT !.pc = "movendo",
                                !.posicao = Passo(eu.posicao, eu.posicao_alvo, eu.velocidade)]]

\* plano_dirigir, lines 285-295: the stop waypoint this decision is about
PontoParadaWaypointNome(eu) ==
    IF eu.ponto_atual \in PONTOS_DE_PARADA THEN eu.ponto_atual
    ELSE IF eu.ponto_alvo_atual \in PONTOS_DE_PARADA THEN eu.ponto_alvo_atual
    ELSE None

\* plano_dirigir, lines 297-301: the colour of the light of that waypoint
\* (the belief the agent holds from the percept of the environment)
CorSinal(nome) ==
    IF ComecaComV(nome) THEN percepts.semaforo_v ELSE percepts.semaforo_h

\* plano_dirigir, lines 303-313: the stop target of this decision, or None:
\* behind the vehicle ahead in the queue, else the stop line on red or yellow.
PontoDeParadaAlvoSemFila(eu, c) ==
    LET nome == PontoParadaWaypointNome(eu)
    IN  IF nome = None THEN None
        ELSE IF CorSinal(nome) \in {"vermelho", "amarelo"}
             THEN PONTOS_DE_PASSAGEM_CARROS[nome] ELSE None
PontoDeParadaAlvoSemAmarelo(eu, c) ==
    LET nome == PontoParadaWaypointNome(eu)
        frente == encontrar_carro_a_frente(eu, c, nome)
    IN  IF nome = None THEN None
        ELSE IF frente # None
        THEN IF ComecaComV(nome)
             THEN <<frente[1], frente[2] + ALTURA_CARRO + DISTANCIA_SEGURA_SEMAFORO>>
             ELSE <<frente[1] + LARGURA_CARRO + DISTANCIA_SEGURA_SEMAFORO, frente[2]>>
        ELSE IF CorSinal(nome) \in {"vermelho"}
             THEN PONTOS_DE_PASSAGEM_CARROS[nome] ELSE None
PontoDeParadaAlvo(eu, c) ==
    LET nome == PontoParadaWaypointNome(eu)
        frente == encontrar_carro_a_frente(eu, c, nome)
    IN  IF nome = None THEN None
        ELSE IF frente # None
        THEN IF ComecaComV(nome)
             THEN <<frente[1], frente[2] + ALTURA_CARRO + DISTANCIA_SEGURA_SEMAFORO>>
             ELSE <<frente[1] + LARGURA_CARRO + DISTANCIA_SEGURA_SEMAFORO, frente[2]>>
        ELSE IF CorSinal(nome) \in {"vermelho", "amarelo"}
             THEN PONTOS_DE_PASSAGEM_CARROS[nome] ELSE None

\* plano_dirigir, lines 315-318: the vehicle idles at its stop target
ParadoNoAlvo(eu, c) ==
    /\ PontoDeParadaAlvo(eu, c) # None
    /\ DentroDoLimiar(eu.posicao, PontoDeParadaAlvo(eu, c), eu.velocidade)

Elementos(seq) == {seq[i] : i \in DOMAIN seq}

\* plano_dirigir, line 320: CAMINHOS_CARROS.get(self.ponto_atual, [])
ProximosPontosPossiveis(eu) ==
    IF eu.ponto_atual \in DOMAIN CAMINHOS_CARROS THEN CAMINHOS_CARROS[eu.ponto_atual]
    ELSE <<>>

\* plano_dirigir, lines 345-350 without the removal of line 348
OpcoesSemFiltro(eu) == Elementos(ProximosPontosPossiveis(eu))

\* plano_dirigir, lines 345-350
OpcoesValidas(eu) ==
    LET proximos == Elementos(ProximosPontosPossiveis(eu))
    IN  IF eu.ponto_anterior \in proximos /\ Cardinality(proximos) > 1
        THEN proximos \ {eu.ponto_anterior} ELSE proximos

\* plano_dirigir, lines 322-329 with the branch of lines 327-329 only
PontosDeRenascimentoQualquer(eu) ==
    PONTOS_INICIAIS_VERTICAIS \cup PONTOS_INICIAIS_HORIZONTAIS

\* plano_dirigir, lines 322-329: where a vehicle at a dead end starts again
PontosDeRenascimento(eu) ==
    IF ComecaComVEnd(eu.ponto_atual) THEN PONTOS_INICIAIS_VERTICAIS
    ELSE IF ComecaComHEnd(eu.ponto_atual) THEN PONTOS_INICIAIS_HORIZONTAIS
    ELSE PONTOS_INICIAIS_VERTICAIS \cup PONTOS_INICIAIS_HORIZONTAIS

\* plano_dirigir, lines 365-370
ETrocaDeFaixa(ponto_atual, ponto_alvo_nome) ==
    \/ /\ SemUltimaLetra(ponto_atual) = SemUltimaLetra(ponto_alvo_nome)
       /\ UltimaLetra(ponto_atual) # UltimaLetra(ponto_alvo_nome)
    \/ /\ ComecaComH(ponto_atual) /\ ComecaComH(ponto_alvo_nome)
       /\ UltimaLetra(ponto_atual) # UltimaLetra(ponto_alvo_nome)

\* the values random.choice can return in this run of plano_dirigir
EscolhasDirigir(eu, c) ==
    IF eu.cedendo # {} \/ ParadoNoAlvo(eu, c) THEN {None}
    ELSE IF ProximosPontosPossiveis(eu) = <<>> THEN PontosDeRenascimento(eu)
    ELSE IF PontoDeParadaAlvo(eu, c) = None THEN OpcoesValidas(eu)
    ELSE {None}

\* plano_dirigir (lines 266-477) from its start to its first sleep, wait or
\* return, with `escolha` the value random.choice returns.
PlanoDirigir(eu, c, escolha) ==
    LET parada == PontoDeParadaAlvo(eu, c)
    IN  IF eu.cedendo # {}
        THEN [publica |-> FALSE,
              eu |-> FimDoPlano(eu, Meta("monitorar_pedestre_cedendo",
                                         CrencaCedendo(eu)[1], CrencaCedendo(eu)[2]))]
        ELSE IF ParadoNoAlvo(eu, c)
        THEN [publica |-> FALSE, eu |-> FimDoPlano(eu, MetaDirigir)]
        ELSE IF ProximosPontosPossiveis(eu) = <<>>
        THEN \* respawn at a start waypoint
             IF escolha \notin DOMAIN PONTOS_DE_PASSAGEM_CARROS
             THEN \* lines 335-339: self.stop_cycle()
                  [publica |-> FALSE,
                   eu |-> [eu EXCEPT !.pc = "parado", !.metas = Tail(eu.metas),
                                     !.ponto_anterior = eu.ponto_atual,
                                     !.ponto_atual = escolha,
                                     !.ponto_alvo_atual = None,
                                     !.posicao = <<360, 360>>]]
             ELSE
             [publica |-> TRUE,
              eu |-> FimDoPlano([eu EXCEPT !.ponto_anterior = eu.ponto_atual,
                                           !.ponto_atual = escolha,
                                           !.ponto_alvo_atual = None,
                                           !.posicao = PONTOS_DE_PASSAGEM_CARROS[escolha]],
                                MetaDirigir)]
        ELSE
        LET ponto_alvo_nome == IF parada = None THEN escolha ELSE PontoParadaWaypointNome(eu)
            com_alvo == [eu EXCEPT !.ponto_alvo_atual =
                                      IF parada = None THEN escolha ELSE @]
        IN  IF /\ ETrocaDeFaixa(eu.ponto_atual, ponto_alvo_nome)
               /\ ~ verificar_faixa_alvo(eu, c, eu.ponto_atual, ponto_alvo_nome)
            THEN \* self.wait(TEMPO_ESPERA_TROCA_FAIXA), then the target is cleared
                 [publica |-> FALSE, eu |-> [com_alvo EXCEPT !.pc = "espera_faixa"]]
            ELSE IteracaoCarro(
                    [com_alvo EXCEPT
                        !.ponto_alvo_nome = ponto_alvo_nome,
                        !.parar_no_semaforo = (parada # None),
                        !.posicao_alvo = IF parada # None THEN parada
                                         ELSE PONTOS_DE_PASSAGEM_CARROS[ponto_alvo_nome]],
                    c)

\* The effect of a step of vehicle c on the shared state and the observers.
EfeitoCarro(c, r) ==
    /\ carro' = [carro EXCEPT ![c] = r.eu]
    /\ lock = "livre"
    /\ lock' = "livre"
    /\ estado_compartilhado' =
          IF r.publica THEN [estado_compartilhado EXCEPT ![ChavePos[c]] = r.eu.posicao]
          ELSE estado_compartilhado
    /\ apos_parada' = IF r.eu.posicao # carro[c].posicao THEN ContaEscrita(c)
                      ELSE apos_parada
    /\ UNCHANGED <<percepts, controlador, renderizador, relogio, desde_escrita, entrada>>

\* this run of plano_dirigir reaches lines 321-343
Renasce(eu, c) ==
    /\ eu.cedendo = {}
    /\ ~ ParadoNoAlvo(eu, c)
    /\ ProximosPontosPossiveis(eu) = <<>>

\* The vehicle takes up its goal dirigir_para_proximo_ponto.
CarroDirigir(c) ==
    /\ carro[c].pc = "livre"
    /\ ProximaMeta(carro[c]) = "dirigir_para_proximo_ponto"
    /\ Renasce(carro[c], c) => carro[c].renasce
    /\ \E escolha \in EscolhasDirigir(carro[c], c) :
          /\ EfeitoCarro(c, PlanoDirigir(carro[c], c, escolha))
          /\ UNCHANGED pessoa

\* The vehicle wakes from time.sleep(self.delay) and runs the loop once more.
CarroPasso(c) ==
    /\ carro[c].pc = "movendo"
    /\ EfeitoCarro(c, IteracaoCarro(carro[c], c))
    /\ UNCHANGED pessoa

\* The vehicle's wait is over: lines 375-377 after the lane-change wait,
\* line 448 after the crosswalk wait, line 535 after the monitor wait.
CarroRetomar(c) ==
    /\ carro[c].pc \in {"espera_faixa", "espera_radar", "espera_monitor"}
    /\ LET eu == carro[c]
       IN  EfeitoCarro(c, [publica |-> FALSE,
              eu |-> IF eu.pc = "espera_faixa"
                     THEN FimDoPlano([eu EXCEPT !.ponto_alvo_atual = None], MetaDirigir)
                     ELSE IF eu.pc = "espera_radar"
                     THEN FimDoPlano(eu, MetaDirigir)
                     ELSE FimDoPlano(eu, Head(eu.metas))])
    /\ UNCHANGED pessoa

\* AgenteCarro.__init__ (lines 94-118)
NovoCarro(ponto_inicial, velocidade, renasce) ==
    [ponto_atual |-> ponto_inicial, ponto_anterior |-> None, ponto_alvo_atual |-> None,
     posicao |-> IF ponto_inicial \in DOMAIN PONTOS_DE_PASSAGEM_CARROS
                 THEN PONTOS_DE_PASSAGEM_CARROS[ponto_inicial]
                 ELSE <<360, 360>>,
     velocidade |-> velocidade,
     pc |-> "livre", metas |-> <<MetaDirigir>>, pedindo |-> {}, cedendo |-> {},
     ponto_alvo_nome |-> None, posicao_alvo |-> None, parar_no_semaforo |-> FALSE,
     pos_lida |-> None, renasce |-> renasce]

\* Leaves the running plan without adding a goal.
FimSemMeta(eu) ==
    [eu EXCEPT !.pc = "livre", !.metas = Tail(eu.metas),
               !.ponto_alvo_nome = None, !.posicao_alvo = None,
               !.parar_no_semaforo = FALSE]

\* Delivers a goal or a message event to an agent's queue (self.send).
Entrega(agentes, para, meta) ==
    [agentes EXCEPT ![para].metas = Append(@, meta)]

\* plano_receber_pedido_travessia (lines 480-485): the beliefs afterwards
plano_receber_pedido_sem_guarda(eu, id_pedestre) ==
    [eu EXCEPT !.pedindo = @ \cup {id_pedestre}]
plano_receber_pedido_travessia(eu, id_pedestre) ==
    IF eu.pedindo # {} \/ eu.cedendo # {} THEN eu
    ELSE [eu EXCEPT !.pedindo = @ \cup {id_pedestre}]

\* The vehicle takes up a crossing request a pedestrian sent it.
CarroReceberPedido(c) ==
    /\ carro[c].pc = "livre"
    /\ ProximaMeta(carro[c]) = "pedido_travessia_pedestre"
    /\ EfeitoCarro(c, [publica |-> FALSE,
          eu |-> FimSemMeta(plano_receber_pedido_travessia(carro[c], Head(carro[c].metas).a))])
    /\ UNCHANGED pessoa

\* plano_avaliar_pedido with the goal of line 498 in place of that of line 495
plano_avaliar_e_dirigir(eu, id_pedestre, ponto_avaliacao) ==
    FimDoPlano([eu EXCEPT !.cedendo = @ \cup {<<id_pedestre, ponto_avaliacao>>},
                          !.pedindo = @ \ {id_pedestre}],
               MetaDirigir)

\* plano_avaliar_pedido without the removal of lines 500-502
plano_avaliar_sem_remover(eu, id_pedestre, ponto_avaliacao) ==
    FimDoPlano([eu EXCEPT !.cedendo = @ \cup {<<id_pedestre, ponto_avaliacao>>}],
               Meta("monitorar_pedestre_cedendo", id_pedestre, ponto_avaliacao))

\* plano_avaliar_pedido (lines 487-503): decisao_ceder is always True
plano_avaliar_pedido(eu, id_pedestre, ponto_avaliacao) ==
    FimDoPlano([eu EXCEPT !.cedendo = @ \cup {<<id_pedestre, ponto_avaliacao>>},
                          !.pedindo = @ \ {id_pedestre}],
               Meta("monitorar_pedestre_cedendo", id_pedestre, ponto_avaliacao))

\* the response of line 497, of the branch that is never taken
RespostaNegada(agentes, c, id_pedestre) ==
    Entrega(agentes, id_pedestre, Meta("resposta_carro_travessia", "negada", c))

\* line 494: the Belief resposta_carro_travessia told to the pedestrian
RespostaDoCarro(agentes, c, id_pedestre) ==
    Entrega(agentes, id_pedestre, Meta("resposta_carro_travessia", "concedida", c))

\* The vehicle evaluates the request: it grants it.
CarroAvaliar(c) ==
    /\ carro[c].pc = "livre"
    /\ ProximaMeta(carro[c]) = "avaliar_pedido_travessia"
    /\ EfeitoCarro(c, [publica |-> FALSE,
          eu |-> plano_avaliar_pedido(carro[c], Head(carro[c].metas).a, Head(carro[c].metas).b)])
    /\ pessoa' = RespostaDoCarro(pessoa, c, Head(carro[c].metas).a)

\* plano_monitorar_pedestre, lines 509-511: the pedestrian's position is read
\* under the lock.
CarroLerPedestre(c) ==
    /\ carro[c].pc = "livre"
    /\ ProximaMeta(carro[c]) = "monitorar_pedestre_cedendo"
    /\ LET id_pedestre == Head(carro[c].metas).a
       IN  EfeitoCarro(c, [publica |-> FALSE,
              eu |-> [carro[c] EXCEPT
                        !.pc = "monitor_lido",
                        !.pos_lida = IF ChavePos[id_pedestre] \in DOMAIN estado_compartilhado
                                     THEN PosDe(id_pedestre) ELSE None]])
    /\ UNCHANGED pessoa

\* lines 513-542 without the removals of lines 523-524, 529-530 and 538-539
plano_monitorar_sem_remover(eu) ==
    IF /\ eu.pos_lida # None
       /\ Head(eu.metas).b \in DOMAIN MAPA_AVALIACAO_PASSADEIRA
       /\ DentroDaZona(eu.pos_lida, MAPA_AVALIACAO_PASSADEIRA[Head(eu.metas).b])
    THEN [eu EXCEPT !.pc = "espera_monitor", !.pos_lida = None]
    ELSE FimDoPlano([eu EXCEPT !.pos_lida = None], MetaDirigir)

\* plano_monitorar_pedestre, lines 513-542, on the position read
plano_monitorar_pedestre(eu) ==
    LET id_pedestre == Head(eu.metas).a
        ponto_avaliacao == Head(eu.metas).b
    IN  IF /\ eu.pos_lida # None
           /\ ponto_avaliacao \in DOMAIN MAPA_AVALIACAO_PASSADEIRA
           /\ DentroDaZona(eu.pos_lida, MAPA_AVALIACAO_PASSADEIRA[ponto_avaliacao])
        THEN \* self.wait(0.5), then the goal is added again
             [eu EXCEPT !.pc = "espera_monitor", !.pos_lida = None]
        ELSE FimDoPlano([eu EXCEPT !.cedendo = @ \ {<<id_pedestre, ponto_avaliacao>>},
                                   !.pos_lida = None], MetaDirigir)

\* The vehicle acts on the position it read.
CarroMonitorar(c) ==
    /\ carro[c].pc = "monitor_lido"
    /\ EfeitoCarro(c, [publica |-> FALSE, eu |-> plano_monitorar_pedestre(carro[c])])
    /\ UNCHANGED pessoa

\* ------------------------------------------------------------- pedestrian
MetaDecidir == Meta("decidir_movimento", None, None)
MetaAguardar == Meta("aguardar_resposta", None, None)
MetaExecutar(ponto_alvo_nome) == Meta("executar_movimento", ponto_alvo_nome, None)

\* plano_aguardar_resposta, line 765
tempo_espera_max == 3

\* lines 628-631 and 667-670: the move is a crossing
ETravessia(ponto_atual, ponto_alvo_nome) ==
    <<ponto_atual, ponto_alvo_nome>> \in
        {<<"P1", "P4">>, <<"P4", "P1">>, <<"P2", "P3">>, <<"P3", "P2">>}

\* lines 592-600 with the branches of lines 597-600 before those of 593-596
CaminhoTravessiaTrocado(ponto_atual) ==
    IF ponto_atual = "P4" THEN "P3"
    ELSE IF ponto_atual = "P3" THEN "P4"
    ELSE IF ponto_atual = "P1" THEN "P2"
    ELSE "P1"

\* lines 592-600: the first branch that matches
CaminhoTravessia(ponto_atual) ==
    IF ponto_atual = "P1" THEN "P4"
    ELSE IF ponto_atual = "P4" THEN "P1"
    ELSE IF ponto_atual = "P2" THEN "P3"
    ELSE "P2"

\* lines 796-801 without the update of menor_distancia at line 799: the last
\* vehicle of the snapshot that is closer than the radius
encontrar_ultimo_carro(eu) ==
    LET perto == {c \in Carros :
                    /\ ChavePos[c] \in DOMAIN estado_compartilhado
                    /\ DistMenor(eu.posicao, PosDe(c), DISTANCIA_SEGURA_CARRO_PEDESTRE)}
    IN  IF perto = {} THEN None
        ELSE CHOOSE c \in perto : \A u \in perto : Ordem(u) <= Ordem(c)

\* encontrar_carro_proximo (lines 785-803): the id of the nearest vehicle
\* closer than DISTANCIA_SEGURA_CARRO_PEDESTRE, or None
encontrar_carro_proximo(eu) ==
    LET perto == {c \in Carros :
                    /\ ChavePos[c] \in DOMAIN estado_compartilhado
                    /\ DistMenor(eu.posicao, PosDe(c), DISTANCIA_SEGURA_CARRO_PEDESTRE)}
    IN  IF perto = {} THEN None ELSE MaisProximo(perto, eu.posicao)

\* Leaves the running plan: its goal is done and `novas` are added.
FimPessoa(eu, novas) ==
    [eu EXCEPT !.pc = "livre", !.metas = Tail(eu.metas) \o novas,
               !.ponto_alvo_nome = None]

\* the values random.choice can return in this run of plano_decidir_movimento
EscolhasDecidir(eu) ==
    IF eu.aguardando \/ (eu.pode_atravessar /\ eu.ponto_atual \in PONTOS_ESPERA_PEDESTRE)
    THEN {None}
    ELSE Elementos(CAMINHOS_PEDESTRES[eu.ponto_atual])

\* plano_decidir_movimento (lines 576-650)
plano_decidir_sem_conceder(eu, escolha) ==
    IF eu.aguardando THEN FimPessoa(eu, <<MetaAguardar>>)
    ELSE IF eu.pode_atravessar /\ eu.ponto_atual \in PONTOS_ESPERA_PEDESTRE
    THEN FimPessoa(eu, <<MetaExecutar(CaminhoTravessia(eu.ponto_atual))>>)
    ELSE IF ETravessia(eu.ponto_atual, escolha) /\ encontrar_carro_proximo(eu) # None
    THEN FimPessoa([eu EXCEPT !.carro_negociando = encontrar_carro_proximo(eu),
                              !.aguardando = TRUE, !.pedidos = 0],
                   <<Meta("pedir_permissao_travessia", encontrar_carro_proximo(eu), None),
                     MetaAguardar>>)
    ELSE FimPessoa(eu, <<MetaExecutar(escolha)>>)
plano_decidir_sem_olhar(eu, escolha) ==
    LET alvo == IF escolha = None THEN CaminhoTravessia(eu.ponto_atual) ELSE escolha
    IN  IF eu.pode_atravessar /\ eu.ponto_atual \in PONTOS_ESPERA_PEDESTRE
        THEN FimPessoa(eu, <<MetaExecutar(CaminhoTravessia(eu.ponto_atual))>>)
        ELSE IF ETravessia(eu.ponto_atual, alvo)
        THEN IF encontrar_carro_proximo(eu) # None
             THEN FimPessoa([eu EXCEPT !.carro_negociando = encontrar_carro_proximo(eu),
                                       !.aguardando = TRUE, !.pedidos = 0],
                            <<Meta("pedir_permissao_travessia", encontrar_carro_proximo(eu), None),
                              MetaAguardar>>)
             ELSE FimPessoa([eu EXCEPT !.pode_atravessar = TRUE], <<MetaExecutar(alvo)>>)
        ELSE FimPessoa(eu, <<MetaExecutar(alvo)>>)
plano_decidir_movimento(eu, escolha) ==
    IF eu.aguardando THEN FimPessoa(eu, <<MetaAguardar>>)
    ELSE IF eu.pode_atravessar /\ eu.ponto_atual \in PONTOS_ESPERA_PEDESTRE
    THEN FimPessoa(eu, <<MetaExecutar(CaminhoTravessia(eu.ponto_atual))>>)
    ELSE IF ETravessia(eu.ponto_atual, escolha)
    THEN IF encontrar_carro_proximo(eu) # None
         THEN FimPessoa([eu EXCEPT !.carro_negociando = encontrar_carro_proximo(eu),
                                   !.aguardando = TRUE, !.pedidos = 0],
                        <<Meta("pedir_permissao_travessia", encontrar_carro_proximo(eu), None),
                          MetaAguardar>>)
         ELSE FimPessoa([eu EXCEPT !.pode_atravessar = TRUE], <<MetaExecutar(escolha)>>)
    ELSE FimPessoa(eu, <<MetaExecutar(escolha)>>)

\* the writes of lines 688-694 without their `with self.lock:`
EfeitoPessoaSemTranca(p, r) ==
    /\ pessoa' = [pessoa EXCEPT ![p] = r.eu]
    /\ lock' = lock
    /\ estado_compartilhado' =
          IF r.publica THEN [estado_compartilhado EXCEPT ![ChavePos[p]] = r.eu.posicao]
          ELSE estado_compartilhado
    /\ apos_parada' = IF r.eu.posicao # pessoa[p].posicao THEN ContaEscrita(p)
                      ELSE apos_parada
    /\ UNCHANGED <<percepts, controlador, renderizador, relogio, desde_escrita, entrada>>

\* The effect of a step of pedestrian p on the shared state and the observers.
EfeitoPessoa(p, r) ==
    /\ pessoa' = [pessoa EXCEPT ![p] = r.eu]
    /\ lock = "livre"
    /\ lock' = "livre"
    /\ estado_compartilhado' =
          IF r.publica THEN [estado_compartilhado EXCEPT ![ChavePos[p]] = r.eu.posicao]
          ELSE estado_compartilhado
    /\ apos_parada' = IF r.eu.posicao # pessoa[p].posicao THEN ContaEscrita(p)
                      ELSE apos_parada
    /\ UNCHANGED <<percepts, controlador, renderizador, relogio, desde_escrita, entrada>>

\* the goals pedir_permissao_travessia in a pedestrian's queue
PedidosNaFila(eu) ==
    Cardinality({i \in DOMAIN eu.metas : eu.metas[i].tipo = "pedir_permissao_travessia"})

\* the crossing requests the pedestrians have issued so far
TotalEmitidos ==
    Cardinality({par \in Pessoas \X (1..MaxPedidos) : par[2] <= pessoa[par[1]].emitidos})

\* The pedestrian takes up its goal decidir_movimento.  The field destinos of
\* a pedestrian holds the values of random.choice the scenario follows it on.
PessoaDecidir(p) ==
    /\ pessoa[p].pc = "livre"
    /\ ProximaMeta(pessoa[p]) = "decidir_movimento"
    /\ \E escolha \in EscolhasDecidir(pessoa[p]) \cap ({None} \cup pessoa[p].destinos) :
          LET r == plano_decidir_movimento([pessoa[p] EXCEPT !.desde_pedido = -1], escolha)
              emite == PedidosNaFila(r) >= PedidosNaFila(pessoa[p]) + 1
          IN  /\ emite => TotalEmitidos < MaxPedidos
              /\ EfeitoPessoa(p, [publica |-> FALSE,
                     eu |-> [r EXCEPT !.emitidos = IF emite THEN @ + 1 ELSE @]])
    /\ UNCHANGED carro

\* lines 678-702 without the removal of lines 697-699
IteracaoPessoaSemLimpar(eu) ==
    LET posicao_alvo == PONTOS_DE_PASSAGEM_PEDESTRES[eu.ponto_alvo_nome]
    IN  IF 4 * Dist2(eu.posicao, posicao_alvo) > eu.velocidade * eu.velocidade
        THEN [publica |-> TRUE,
              eu |-> [eu EXCEPT !.pc = "movendo",
                                !.posicao = Passo(eu.posicao, posicao_alvo, eu.velocidade)]]
        ELSE [publica |-> TRUE,
              eu |-> FimPessoa([eu EXCEPT !.posicao = posicao_alvo,
                                          !.ponto_atual = eu.ponto_alvo_nome], <<MetaDecidir>>)]

\* One pass of the loop of plano_executar_movimento (lines 678-690), and lines
\* 692-702 when the loop ends.
IteracaoPessoa(eu) ==
    LET posicao_alvo == PONTOS_DE_PASSAGEM_PEDESTRES[eu.ponto_alvo_nome]
    IN  IF 4 * Dist2(eu.posicao, posicao_alvo) > eu.velocidade * eu.velocidade
        THEN [publica |-> TRUE,
              eu |-> [eu EXCEPT !.pc = "movendo",
                                !.posicao = Passo(eu.posicao, posicao_alvo, eu.velocidade)]]
        ELSE [publica |-> TRUE,
              eu |-> FimPessoa([eu EXCEPT !.posicao = posicao_alvo,
                                          !.ponto_atual = eu.ponto_alvo_nome,
                                          !.pode_atravessar = FALSE,
                                          !.concedente = None], <<MetaDecidir>>)]

\* plano_executar_movimento without the test of lines 672-674
plano_executar_sem_permissao(eu) ==
    IteracaoPessoa([eu EXCEPT !.ponto_alvo_nome = Head(eu.metas).a])

\* plano_executar_movimento (lines 652-702) up to its first sleep or return
plano_executar_movimento(eu) ==
    LET ponto_alvo_nome == Head(eu.metas).a
    IN  IF ETravessia(eu.ponto_atual, ponto_alvo_nome) /\ ~ eu.pode_atravessar
        THEN [publica |-> FALSE, eu |-> FimPessoa(eu, <<MetaDecidir>>)]
        ELSE IteracaoPessoa([eu EXCEPT !.ponto_alvo_nome = ponto_alvo_nome])

\* The pedestrian takes up its goal executar_movimento.
PessoaExecutar(p) ==
    /\ pessoa[p].pc = "livre"
    /\ ProximaMeta(pessoa[p]) = "executar_movimento"
    /\ EfeitoPessoa(p, plano_executar_movimento(pessoa[p]))
    /\ UNCHANGED carro

\* The pedestrian wakes from time.sleep(self.delay) and runs the loop once more.
PessoaPasso(p) ==
    /\ pessoa[p].pc = "movendo"
    /\ EfeitoPessoa(p, IteracaoPessoa(pessoa[p]))
    /\ UNCHANGED carro

\* plano_pedir_permissao (lines 723-729): the request is sent to the vehicle.
PessoaPedir(p) ==
    /\ pessoa[p].pc = "livre"
    /\ ProximaMeta(pessoa[p]) = "pedir_permissao_travessia"
    /\ carro' = Entrega(carro, Head(pessoa[p].metas).a,
                        Meta("pedido_travessia_pedestre", p, None))
    /\ EfeitoPessoa(p, [publica |-> FALSE,
                        eu |-> FimPessoa([pessoa[p] EXCEPT !.desde_pedido = 0,
                                                           !.pedidos = Min2(@ + 1, 2)],
                                         <<>>)])

\* plano_aguardar_resposta, lines 761-766: up to self.wait(tempo_espera_max)
PessoaAguardar(p) ==
    /\ pessoa[p].pc = "livre"
    /\ ProximaMeta(pessoa[p]) = "aguardar_resposta"
    /\ EfeitoPessoa(p, [publica |-> FALSE,
          eu |-> IF ~ pessoa[p].aguardando THEN FimPessoa(pessoa[p], <<MetaDecidir>>)
                 ELSE [pessoa[p] EXCEPT !.pc = "aguardando",
                                        !.espera_restante = tempo_espera_max]])
    /\ UNCHANGED carro

\* plano_aguardar_resposta, lines 768-773: after the wait
plano_aguardar_resposta_esquecido(eu) ==
    IF eu.aguardando
    THEN FimPessoa([eu EXCEPT !.aguardando = FALSE], <<MetaDecidir>>)
    ELSE FimPessoa(eu, <<>>)

\* plano_aguardar_resposta without the goal of line 772
plano_aguardar_resposta_sem_meta(eu) ==
    IF eu.aguardando
    THEN FimPessoa([eu EXCEPT !.aguardando = FALSE, !.carro_negociando = None], <<>>)
    ELSE FimPessoa(eu, <<>>)

plano_aguardar_resposta_fim(eu) ==
    IF eu.aguardando
    THEN FimPessoa([eu EXCEPT !.aguardando = FALSE, !.carro_negociando = None],
                   <<MetaDecidir>>)
    ELSE FimPessoa(eu, <<>>)

\* The wait for the response has run out.
PessoaTimeout(p) ==
    /\ pessoa[p].pc = "aguardando"
    /\ pessoa[p].espera_restante = 0
    /\ EfeitoPessoa(p, [publica |-> FALSE, eu |-> plano_aguardar_resposta_fim(pessoa[p])])
    /\ UNCHANGED carro

\* plano_processar_resposta_carro without the removal of lines 741-743
plano_processar_sem_remover(eu, resposta, id_carro_resp) ==
    IF id_carro_resp # eu.carro_negociando THEN [eu |-> eu, novas |-> <<>>]
    ELSE [eu |-> [eu EXCEPT !.carro_negociando = None,
                            !.desde_pedido = -1,
                            !.pode_atravessar = IF resposta = "concedida" THEN TRUE ELSE @,
                            !.concedente = IF resposta = "concedida" THEN id_carro_resp ELSE @],
          novas |-> IF resposta = "concedida" THEN <<MetaDecidir>>
                    ELSE <<Meta("aguardar_antes_de_tentar_novamente", None, None)>>]

\* plano_processar_resposta_carro without the test of lines 738-739
plano_processar_qualquer_carro(eu, resposta, id_carro_resp) ==
    [eu |-> [eu EXCEPT !.aguardando = FALSE, !.carro_negociando = None,
                       !.desde_pedido = -1,
                       !.pode_atravessar = IF resposta = "concedida" THEN TRUE ELSE @,
                       !.concedente = IF resposta = "concedida" THEN id_carro_resp ELSE @],
     novas |-> IF resposta = "concedida" THEN <<MetaDecidir>>
               ELSE <<Meta("aguardar_antes_de_tentar_novamente", None, None)>>]

\* plano_processar_resposta_carro without the assignment of line 745
plano_processar_sem_esquecer(eu, resposta, id_carro_resp) ==
    IF id_carro_resp # eu.carro_negociando THEN [eu |-> eu, novas |-> <<>>]
    ELSE [eu |-> [eu EXCEPT !.aguardando = FALSE,
                            !.desde_pedido = -1,
                            !.pode_atravessar = IF resposta = "concedida" THEN TRUE ELSE @,
                            !.concedente = IF resposta = "concedida" THEN id_carro_resp ELSE @],
          novas |-> IF resposta = "concedida" THEN <<MetaDecidir>>
                    ELSE <<Meta("aguardar_antes_de_tentar_novamente", None, None)>>]

\* plano_processar_resposta_carro (lines 731-753): the pedestrian afterwards
\* and the goals it adds
plano_processar_resposta_carro(eu, resposta, id_carro_resp) ==
    IF id_carro_resp # eu.carro_negociando THEN [eu |-> eu, novas |-> <<>>]
    ELSE [eu |-> [eu EXCEPT !.aguardando = FALSE, !.carro_negociando = None,
                            !.desde_pedido = -1,
                            !.pode_atravessar = IF resposta = "concedida" THEN TRUE ELSE @,
                            !.concedente = IF resposta = "concedida" THEN id_carro_resp ELSE @],
          novas |-> IF resposta = "concedida" THEN <<MetaDecidir>>
                    ELSE <<Meta("aguardar_antes_de_tentar_novamente", None, None)>>]

\* the place in the queue of the first response not yet handled, or 0
PosicaoResposta(eu) ==
    IF \E i \in DOMAIN eu.metas : eu.metas[i].tipo = "resposta_carro_travessia"
    THEN CHOOSE i \in DOMAIN eu.metas :
            /\ eu.metas[i].tipo = "resposta_carro_travessia"
            /\ \A j \in 1..(i - 1) : eu.metas[j].tipo # "resposta_carro_travessia"
    ELSE 0

SemElemento(seq, i) == SubSeq(seq, 1, i - 1) \o SubSeq(seq, i + 1, Len(seq))

\* The pedestrian handles a response of a vehicle: as its next event when it
\* runs no plan, or while its plan is in the wait for the response.
PessoaProcessarResposta(p) ==
    /\ pessoa[p].pc \in {"livre", "aguardando"}
    /\ PosicaoResposta(pessoa[p]) # 0
    /\ pessoa[p].pc = "livre" => PosicaoResposta(pessoa[p]) = 1
    /\ LET i == PosicaoResposta(pessoa[p])
           r == plano_processar_resposta_carro(pessoa[p], pessoa[p].metas[i].a,
                                               pessoa[p].metas[i].b)
       IN  EfeitoPessoa(p, [publica |-> FALSE,
              eu |-> [r.eu EXCEPT !.metas = SemElemento(@, i) \o r.novas]])
    /\ UNCHANGED carro

\* plano_espera_curta (lines 775-781): up to self.wait(tempo_espera)
PessoaEsperaCurta(p) ==
    /\ pessoa[p].pc = "livre"
    /\ ProximaMeta(pessoa[p]) = "aguardar_antes_de_tentar_novamente"
    /\ EfeitoPessoa(p, [publica |-> FALSE, eu |-> [pessoa[p] EXCEPT !.pc = "espera_curta"]])
    /\ UNCHANGED carro

\* plano_espera_curta (lines 782-783): the wait is over
PessoaRetomar(p) ==
    /\ pessoa[p].pc = "espera_curta"
    /\ EfeitoPessoa(p, [publica |-> FALSE, eu |-> FimPessoa(pessoa[p], <<MetaDecidir>>)])
    /\ UNCHANGED carro

\* AgentePessoa.__init__ (lines 551-574)
NovaPessoa(ponto_inicial, velocidade, destinos) ==
    [ponto_atual |-> ponto_inicial,
     posicao |-> PONTOS_DE_PASSAGEM_PEDESTRES[ponto_inicial], velocidade |-> velocidade,
     pc |-> "livre", metas |-> <<MetaDecidir>>, aguardando |-> FALSE,
     pode_atravessar |-> FALSE, carro_negociando |-> None, ponto_alvo_nome |-> None,
     espera_restante |-> 0, desde_pedido |-> -1, pedidos |-> 0, emitidos |-> 0, concedente |-> None,
     destinos |-> destinos]

\* ---------------------------------------------------------- construction
\* main.py:21-25 and 236-237, then ControladorDeCruzamento.setup (48-61).
EstadoInicial(chaves_pos) ==
    [k \in {"estado_semaforo_v", "estado_semaforo_h", "simulacao_ativa"}
           \cup {ChavePos[a] : a \in DOMAIN chaves_pos} |->
        IF k = "estado_semaforo_v" THEN "verde"
        ELSE IF k = "estado_semaforo_h" THEN "vermelho"
        ELSE IF k = "simulacao_ativa" THEN TRUE
        ELSE chaves_pos[CHOOSE a \in DOMAIN chaves_pos : ChavePos[a] = k]]

Vazio == [a \in {} |-> None]

InitControlador ==
    /\ percepts = [semaforo_v |-> "verde", semaforo_h |-> "vermelho"]
    /\ controlador = [pc |-> "change_v", indice_estado_atual |-> 1, tempo_restante |-> 0]
    /\ renderizador = [pc |-> "eventos", executando |-> TRUE]
    /\ lock = "livre"
    /\ desde_escrita = 0
    /\ entrada = [i \in 1..Len(estados) |-> -1]
    /\ apos_parada = [a \in {"Cruzamento"} \cup Carros \cup Pessoas |-> 0]

\* The controller and the renderer alone, with the observation clock running.
InitSinal ==
    /\ carro = Vazio
    /\ pessoa = Vazio
    /\ estado_compartilhado = EstadoInicial(Vazio)
    /\ relogio = 0
    /\ InitControlador

NextSinal ==
    \/ TrocarPerceptV
    \/ TrocarPerceptH
    \/ TomarTrancaSinal
    \/ EscreverEstado
    \/ Acordar
    \/ PassarTempo
    \/ RenderizadorEventos
    \/ RenderizadorTomarTranca
    \/ EncerrarSimulacao
    \/ CopiarEstado
    \/ RenderizadorProximoQuadro

SpecSinal == InitSinal /\ [][NextSinal]_vars

\* ----------------------------------------------------------------- traffic
\* the speed main.py gives a vehicle is random.uniform(4, 6); the model takes
\* VelocidadeCarro pixels for every step
VelocidadeCarro == 60
NumCarrosTrafego == 2

PosicoesDe(agentes) == [a \in DOMAIN agentes |-> agentes[a].posicao]

\* main.py:239-254 with NumCarrosTrafego vehicles and no pedestrian
InitTrafego ==
    /\ carro \in [{NomeCarro[i] : i \in 1..NumCarrosTrafego} ->
                    {NovoCarro(pt, VelocidadeCarro, TRUE) :
                        pt \in PONTOS_INICIAIS_VERTICAIS \cup PONTOS_INICIAIS_HORIZONTAIS}]
    /\ pessoa = Vazio
    /\ estado_compartilhado = EstadoInicial(PosicoesDe(carro))
    /\ relogio = -1
    /\ InitControlador

NextTrafego ==
    \/ TrocarPerceptV
    \/ TrocarPerceptH
    \/ TomarTrancaSinal
    \/ EscreverEstado
    \/ Acordar
    \/ PassarTempo
    \/ \E c \in Carros : CarroDirigir(c)
    \/ \E c \in Carros : CarroPasso(c)
    \/ \E c \in Carros : CarroRetomar(c)

SpecTrafego == InitTrafego /\ [][NextTrafego]_vars

\* ---------------------------------------------------------------- crossing
\* the speed main.py gives a pedestrian is random.uniform(4.0, 6.0); the
\* model takes VelocidadePessoa pixels for every step
VelocidadePessoa == 100

\* main.py:239-271 with one vehicle, followed to the end of its first route,
\* and one pedestrian, followed between the four waiting points, while the
\* lights stay in their first phase
Init ==
    /\ carro \in [{NomeCarro[1]} ->
                    {NovoCarro(pt, VelocidadeCarro, FALSE) : pt \in PONTOS_INICIAIS_VERTICAIS}]
    /\ pessoa \in [{NomePessoa[1]} ->
                    {NovaPessoa(pt, VelocidadePessoa, {"P1", "P2", "P3", "P4"}) :
                        pt \in {"P1", "P3"}}]
    /\ estado_compartilhado = EstadoInicial(PosicoesDe(carro) @@ PosicoesDe(pessoa))
    /\ relogio = -1
    /\ InitControlador

Next ==
    \/ PassarTempo
    \/ \E c \in Carros : CarroDirigir(c)
    \/ \E c \in Carros : CarroPasso(c)
    \/ \E c \in Carros : CarroRetomar(c)
    \/ \E c \in Carros : CarroReceberPedido(c)
    \/ \E c \in Carros : CarroAvaliar(c)
    \/ \E c \in Carros : CarroLerPedestre(c)
    \/ \E c \in Carros : CarroMonitorar(c)
    \/ \E p \in Pessoas : PessoaDecidir(p)
    \/ \E p \in Pessoas : PessoaExecutar(p)
    \/ \E p \in Pessoas : PessoaPasso(p)
    \/ \E p \in Pessoas : PessoaPedir(p)
    \/ \E p \in Pessoas : PessoaAguardar(p)
    \/ \E p \in Pessoas : PessoaTimeout(p)
    \/ \E p \in Pessoas : PessoaProcessarResposta(p)

Spec == Init /\ [][Next]_vars

\* ---------------------------------------------------------------- requests
\* main.py:239-271 with one vehicle and two pedestrians that start at P1 and
\* are followed on the crosswalk between P1 and P4
InitPedidos ==
    /\ carro \in [{NomeCarro[1]} ->
                    {NovoCarro(pt, VelocidadeCarro, FALSE) : pt \in PONTOS_INICIAIS_VERTICAIS}]
    /\ pessoa \in [{NomePessoa[1], NomePessoa[2]} ->
                    {NovaPessoa(pt, VelocidadePessoa, {"P1", "P4"}) : pt \in {"P1"}}]
    /\ estado_compartilhado = EstadoInicial(PosicoesDe(carro) @@ PosicoesDe(pessoa))
    /\ relogio = -1
    /\ InitControlador

SpecPedidos == InitPedidos /\ [][Next]_vars

\* ------------------------------------------------------------ shared state
\* main.py:239-271 and 282-357: the controller, the renderer, one vehicle that
\* starts in the right lane and is followed to the end of its first route,
\* and one pedestrian that starts at P3 and is followed to P2
InitTranca ==
    /\ carro = [c \in {NomeCarro[1]} |-> NovoCarro("V_START_R", VelocidadeCarro, FALSE)]
    /\ pessoa = [p \in {NomePessoa[1]} |-> NovaPessoa("P3", VelocidadePessoa, {"P2"})]
    /\ estado_compartilhado = EstadoInicial(PosicoesDe(carro) @@ PosicoesDe(pessoa))
    /\ relogio = -1
    /\ InitControlador

\* the vehicle is never nearer than 150 to the pedestrian's waiting point, so
\* no request is sent and the negotiation plans have nothing to handle
NextTranca ==
    \/ TrocarPerceptV
    \/ TrocarPerceptH
    \/ TomarTrancaSinal
    \/ EscreverEstado
    \/ Acordar
    \/ PassarTempo
    \/ RenderizadorEventos
    \/ RenderizadorTomarTranca
    \/ EncerrarSimulacao
    \/ CopiarEstado
    \/ RenderizadorProximoQuadro
    \/ \E c \in Carros : CarroDirigir(c)
    \/ \E c \in Carros : CarroPasso(c)
    \/ \E c \in Carros : CarroRetomar(c)
    \/ \E p \in Pessoas : PessoaDecidir(p)
    \/ \E p \in Pessoas : PessoaExecutar(p)
    \/ \E p \in Pessoas : PessoaPasso(p)

SpecTranca == InitTranca /\ [][NextTranca]_vars

\* ------------------------------------------------- properties: the lights
\* the four documented phases, in their order
ParesDocumentados ==
    <<<<"verde", "vermelho">>, <<"amarelo", "vermelho">>,
      <<"vermelho", "verde">>, <<"vermelho", "amarelo">>>>

FaseDe(par) == CHOOSE i \in 1..4 : ParesDocumentados[i] = par
ProximoPar(par) == ParesDocumentados[(FaseDe(par) % 4) + 1]

\* C1: in every reachable state the pair (estado_semaforo_v, estado_semaforo_h)
\* is one of (green,red), (yellow,red), (red,green), (red,yellow), and every
\* change of the pair goes to the next phase of that order.
C1_OrdemDasFases ==
    /\ [](\E i \in 1..4 : ParSemaforo = ParesDocumentados[i])
    /\ [][ParSemaforo' # ParSemaforo => ParSemaforo' = ProximoPar(ParSemaforo)]_vars

\* all four changes of the pair have happened: phase 1 was written again
C1_CicloCompleto ==
    /\ entrada[1] > 0
    /\ ParSemaforo = <<"verde", "vermelho">>

\* the phase durations as documented, and as written in the code
DuracaoDocumentada(par) == <<4, 2, 4, 2>>[FaseDe(par)]
DuracaoNoCodigo(par) == <<5, 2, 5, 2>>[FaseDe(par)]

C3_ParaAposSinalizacao ==
    \A a \in DOMAIN apos_parada : apos_parada[a] <= 1

\* ------------------------------------------- properties: the negotiation
\* vehicle c takes up the crossing request at the head of its queue
TomaPedido(c) ==
    /\ carro[c].pc = "livre"
    /\ ProximaMeta(carro[c]) = "pedido_travessia_pedestre"
    /\ carro'[c].metas = Tail(carro[c].metas)

\* C4: a vehicle holds at most one pending-request belief and at most one
\* yielding belief, and a crossing request it takes up while it holds a
\* pending request or a yielding belief is dropped: its beliefs stay as they
\* are and nothing is sent to any pedestrian.
C4_UmPedidoPorCarro ==
    /\ [](\A c \in Carros : /\ Cardinality(carro[c].pedindo) <= 1
                            /\ Cardinality(carro[c].cedendo) <= 1)
    /\ [][\A c \in Carros :
            (TomaPedido(c) /\ (carro[c].pedindo # {} \/ carro[c].cedendo # {}))
               => /\ carro'[c].pedindo = carro[c].pedindo
                  /\ carro'[c].cedendo = carro[c].cedendo
                  /\ pessoa' = pessoa]_vars

\* a vehicle holds the request of one pedestrian and has dropped the request
\* of another, who still waits for the response
C4_PedidoDescartado ==
    \E c \in Carros : \E p, q \in Pessoas :
        /\ p # q
        /\ carro[c].pedindo = {p}
        /\ carro[c].cedendo = {}
        /\ \A i \in DOMAIN carro[c].metas :
              carro[c].metas[i].tipo # "pedido_travessia_pedestre"
        /\ pessoa[q].pc = "aguardando"
        /\ pessoa[q].desde_pedido >= 0
        /\ pessoa[q].carro_negociando = c
        /\ PosicaoResposta(pessoa[q]) = 0

\* pedestrian p runs plano_decidir_movimento
TomaDecisao(p) ==
    /\ pessoa[p].pc = "livre"
    /\ ProximaMeta(pessoa[p]) = "decidir_movimento"
    /\ pessoa'[p] # pessoa[p]
    /\ carro' = carro

\* pedestrian p issues a crossing request: the goal pedir_permissao_travessia
\* is added to its queue
EmitePedido(p) == PedidosNaFila(pessoa'[p]) > PedidosNaFila(pessoa[p])

\* pedestrian p runs plano_pedir_permissao: the request goes to the vehicle
EnviaPedido(p) ==
    /\ pessoa[p].pc = "livre"
    /\ ProximaMeta(pessoa[p]) = "pedir_permissao_travessia"
    /\ PedidosNaFila(pessoa'[p]) < PedidosNaFila(pessoa[p])

\* C5 as stated: every crossing request a pedestrian sends is sent in a state
\* where it does not hold the awaiting-response belief.
C5_EnviaSemCrenca ==
    [][\A p \in Pessoas : EnviaPedido(p) => ~ pessoa[p].aguardando]_vars

\* C5 amended: a crossing request is issued only by a decision taken without
\* the awaiting-response belief, and that decision adds the belief; a decision
\* taken with the belief only goes back to waiting; every issued request is
\* sent once; and the belief is cleared only by the timeout or by a response.
C5_EmiteSemCrenca ==
    /\ [](\A p \in Pessoas : PedidosNaFila(pessoa[p]) <= 1 /\ pessoa[p].pedidos <= 1)
    /\ [][\A p \in Pessoas :
            /\ EmitePedido(p) =>
                  TomaDecisao(p) /\ ~ pessoa[p].aguardando /\ pessoa'[p].aguardando
            /\ (TomaDecisao(p) /\ pessoa[p].aguardando) =>
                  /\ pessoa'[p].aguardando
                  /\ pessoa'[p].pode_atravessar = pessoa[p].pode_atravessar
                  /\ pessoa'[p].metas = Append(Tail(pessoa[p].metas), MetaAguardar)
            /\ (pessoa[p].aguardando /\ ~ pessoa'[p].aguardando) =>
                  \/ /\ pessoa[p].pc = "aguardando"
                     /\ pessoa[p].espera_restante = 0
                     /\ pessoa'[p].pc = "livre"
                  \/ /\ PosicaoResposta(pessoa[p]) # 0
                     /\ pessoa'[p].pode_atravessar]_vars

\* a pedestrian whose first request timed out has sent its second request and
\* holds the belief again
C5_SegundoPedido ==
    \E p \in Pessoas :
        /\ pessoa[p].emitidos = 2
        /\ pessoa[p].pedidos = 1
        /\ pessoa[p].aguardando
        /\ pessoa[p].pc = "aguardando"

\* the wait of pedestrian p for the response runs out
Expira(p) ==
    /\ pessoa[p].pc = "aguardando"
    /\ pessoa[p].espera_restante = 0
    /\ pessoa'[p].pc = "livre"

\* C6: a pedestrian that has sent a crossing request and got no response
\* waits no longer than tempo_espera_max seconds after the request; when the
\* wait runs out it has the goal decidir_movimento again, the awaiting-response
\* belief is cleared, no negotiating vehicle is recorded and it holds no
\* permission to cross.
C6_RetomaAposTimeout ==
    /\ [](\A p \in Pessoas : pessoa[p].desde_pedido <= tempo_espera_max)
    /\ [][\A p \in Pessoas :
            (Expira(p) /\ pessoa[p].aguardando) =>
               /\ pessoa[p].desde_pedido = tempo_espera_max
               /\ ~ pessoa'[p].aguardando
               /\ pessoa'[p].carro_negociando = None
               /\ ~ pessoa'[p].pode_atravessar
               /\ pessoa'[p].metas = Append(Tail(pessoa[p].metas), MetaDecidir)]_vars

\* a request has timed out without a response and the pedestrian is about to
\* decide again
C6_TimeoutSemResposta ==
    \E p \in Pessoas :
        /\ pessoa[p].desde_pedido = tempo_espera_max
        /\ pessoa[p].pc = "livre"
        /\ pessoa[p].metas = <<MetaDecidir>>
        /\ ~ pessoa[p].aguardando
        /\ pessoa[p].carro_negociando = None

\* the crosswalk rectangle of the grant <<pedestrian, evaluation point>>
ZonaDaConcessao(concessao) == MAPA_AVALIACAO_PASSADEIRA[concessao[2]]

\* C7: a vehicle removes its yielding belief for a pedestrian in no state
\* where that pedestrian's position is inside the crosswalk rectangle of the
\* evaluation point of the grant.
C7_NaoRevogaNaPassadeira ==
    [][\A c \in Carros : \A concessao \in carro[c].cedendo :
          concessao \notin carro'[c].cedendo
             => ~ DentroDaZona(pessoa[concessao[1]].posicao, ZonaDaConcessao(concessao))]_vars

\* a response of vehicle c is on its way to pedestrian p
RespostaEmTransito(c, p) ==
    \E i \in DOMAIN pessoa[p].metas :
        /\ pessoa[p].metas[i].tipo = "resposta_carro_travessia"
        /\ pessoa[p].metas[i].b = c

\* vehicle c holds a yielding belief for pedestrian p
CedeA(c, p) == \E concessao \in carro[c].cedendo : concessao[1] = p

\* C8: a grant sets one permitted-to-cross belief on the pedestrian and one
\* yielding belief on the vehicle, and they are cleared together: while the
\* pedestrian holds the permission a vehicle granted, that vehicle holds one
\* yielding belief for it, and once the response of the vehicle has been
\* handled the vehicle yields to the pedestrian only while the pedestrian
\* holds the permission of that grant.
C8_ConcessaoEmPar ==
    \A c \in Carros : \A p \in Pessoas :
        /\ (pessoa[p].pode_atravessar /\ pessoa[p].concedente = c)
              => Cardinality({concessao \in carro[c].cedendo : concessao[1] = p}) = 1
        /\ (CedeA(c, p) /\ ~ RespostaEmTransito(c, p))
              => (pessoa[p].pode_atravessar /\ pessoa[p].concedente = c)

\* ------------------------------------------------ properties: the traffic
\* C9: no vehicle that is moving is closer than the forward safety distance
\* (72 on a vertical heading, 36 on a horizontal one) to the vehicle
\* immediately ahead of it in its lane.
C9_DistanciaSegura ==
    \A c \in Carros :
        carro[c].pc = "movendo" => ~ encontrar_obstaculo_imediato(carro[c], c)

\* vehicle c runs plano_dirigir in this step, or the step changes nothing
DecideDirigir(c) ==
    /\ carro[c].pc = "livre"
    /\ ProximaMeta(carro[c]) = "dirigir_para_proximo_ponto"
    /\ pessoa' = pessoa
    /\ \A d \in Carros \ {c} : carro'[d] = carro[d]

\* the decision of vehicle c is about a stop waypoint whose light is red or
\* yellow, and no vehicle is ahead of c in the queue to that waypoint
NoSinalFechado(c) ==
    LET nome == PontoParadaWaypointNome(carro[c])
    IN  /\ nome # None
        /\ CorSinal(nome) \in {"vermelho", "amarelo"}
        /\ encontrar_carro_a_frente(carro[c], c, nome) = None

\* C10: a vehicle whose current or target waypoint is a stop waypoint, with
\* its light red or yellow and no vehicle ahead in its lane, drives to the
\* coordinate of the stop waypoint as a stop target; a decision it takes
\* within half a speed step of that coordinate leaves its position as it is
\* and issues the decision goal again.
C10_ParaNaLinha ==
    [][\A c \in Carros :
          (DecideDirigir(c) /\ NoSinalFechado(c)) =>
             LET linha == PONTOS_DE_PASSAGEM_CARROS[PontoParadaWaypointNome(carro[c])]
             IN  IF DentroDoLimiar(carro[c].posicao, linha, carro[c].velocidade)
                 THEN /\ carro'[c].posicao = carro[c].posicao
                      /\ carro'[c].pc = "livre"
                      /\ carro[c].cedendo = {} =>
                            carro'[c].metas = Append(Tail(carro[c].metas), MetaDirigir)
                 ELSE (carro[c].cedendo = {} /\ carro'[c] # carro[c]) =>
                         /\ carro'[c].posicao_alvo = linha
                         /\ carro'[c].parar_no_semaforo
                         /\ carro'[c].pc \in {"movendo", "livre"}
                         /\ carro'[c].ponto_atual = carro[c].ponto_atual]_vars

\* a vehicle whose target waypoint is a stop waypoint drove to the stop line
\* as a stop target (it is still on the way to that waypoint), stands on the
\* line ahead of every other vehicle with its light closed, and is about to
\* decide
C10_ParadoNaLinha ==
    \E c \in Carros :
        /\ carro[c].pc = "livre"
        /\ ProximaMeta(carro[c]) = "dirigir_para_proximo_ponto"
        /\ carro[c].cedendo = {}
        /\ NoSinalFechado(c)
        /\ carro[c].ponto_atual \notin PONTOS_DE_PARADA
        /\ carro[c].posicao = PONTOS_DE_PASSAGEM_CARROS[carro[c].ponto_alvo_atual]

\* --------------------------------------- properties: the pedestrian's move
\* the goal a pedestrian added last
UltimaMeta(eu) == eu.metas[Len(eu.metas)]

\* pedestrian p, at a waiting point without permission and without a pending
\* request, decides on a crossing move while no vehicle is within
\* DISTANCIA_SEGURA_CARRO_PEDESTRE of it
DecideTravessiaLivre(p) ==
    /\ TomaDecisao(p)
    /\ pessoa[p].ponto_atual \in PONTOS_ESPERA_PEDESTRE
    /\ ~ pessoa[p].aguardando
    /\ ~ pessoa[p].pode_atravessar
    /\ encontrar_carro_proximo(pessoa[p]) = None
    /\ UltimaMeta(pessoa'[p]).tipo = "executar_movimento"
    /\ ETravessia(pessoa[p].ponto_atual, UltimaMeta(pessoa'[p]).a)

\* the decision grants the permission itself, sends and issues no request
\* and does not wait for a response: the goal of the move is the only one
\* it adds
ConcedeASiMesmo(p) ==
    /\ pessoa'[p].pode_atravessar
    /\ ~ pessoa'[p].aguardando
    /\ pessoa'[p].carro_negociando = pessoa[p].carro_negociando
    /\ pessoa'[p].metas = Append(Tail(pessoa[p].metas), UltimaMeta(pessoa'[p]))
    /\ pessoa'[p].emitidos = pessoa[p].emitidos
    /\ carro' = carro

\* C11 as stated: the decision that grants the permission itself also takes
\* the first movement step to the chosen destination.
C11_MoveNaDecisao ==
    [][\A p \in Pessoas :
          DecideTravessiaLivre(p) =>
             /\ ConcedeASiMesmo(p)
             /\ pessoa'[p].posicao # pessoa[p].posicao]_vars

\* C11 amended: a pedestrian at a waiting point that picks a crossing move
\* while no vehicle is within the safety radius grants itself the permission,
\* sends no request and does not wait for a response; the decision takes no
\* movement step itself: it leaves the position and the current waypoint as
\* they are and adds, as the last goal of the pedestrian, the goal to move to
\* the chosen destination.
C11_ConcedeEAgendaMovimento ==
    [][\A p \in Pessoas :
          DecideTravessiaLivre(p) =>
             /\ ConcedeASiMesmo(p)
             /\ pessoa'[p].posicao = pessoa[p].posicao
             /\ pessoa'[p].ponto_atual = pessoa[p].ponto_atual
             /\ pessoa'[p].pc = "livre"
             /\ estado_compartilhado' = estado_compartilhado]_vars

\* a pedestrian that granted itself the permission has taken the first step
\* of the crossing; it sent no request
C11_AtravessaSemPedir ==
    \E p \in Pessoas :
        /\ pessoa[p].pc = "movendo"
        /\ ETravessia(pessoa[p].ponto_atual, pessoa[p].ponto_alvo_nome)
        /\ pessoa[p].pode_atravessar
        /\ pessoa[p].concedente = None
        /\ pessoa[p].emitidos = 0
        /\ pessoa[p].posicao # PONTOS_DE_PASSAGEM_PEDESTRES[pessoa[p].ponto_atual]


\* ------------------------------------------- properties: the shared state
\* the processes that are in a sleep or a timed wait: the controller in
\* time.sleep (line 85), the renderer in clock.tick (main.py:362), a vehicle
\* or a pedestrian between two movement steps or in one of its waits
Suspensos ==
    (IF controlador.pc = "dormindo" THEN {"Cruzamento"} ELSE {})
    \cup (IF renderizador.pc = "desenhar" THEN {"Renderizador"} ELSE {})
    \cup {c \in Carros : carro[c].pc \in {"movendo", "espera_faixa", "espera_radar",
                                          "espera_monitor"}}
    \cup {p \in Pessoas : pessoa[p].pc \in {"movendo", "aguardando"}}

\* a thread that holds the lock runs on to the end of its `with` block
SpecTrancaJusta ==
    /\ SpecTranca
    /\ WF_vars(EscreverEstado)
    /\ WF_vars(EncerrarSimulacao)
    /\ WF_vars(CopiarEstado)

ChavesMudadas ==
    {k \in DOMAIN estado_compartilhado : estado_compartilhado'[k] # estado_compartilhado[k]}

\* the step was taken by the controller inside the `with` block of line 82
EscritaDoControlador ==
    /\ lock = "Cruzamento"
    /\ controlador.pc = "na_tranca"
    /\ carro' = carro /\ pessoa' = pessoa /\ renderizador' = renderizador

\* the step was taken by the renderer inside the `with` block of main.py:330
EscritaDoRenderizador ==
    /\ lock = "Renderizador"
    /\ renderizador.pc = "na_tranca_sair"
    /\ carro' = carro /\ pessoa' = pessoa /\ controlador' = controlador

\* the step was taken by vehicle c alone, which took the lock for the write
\* and wrote its own position
EscritaDoCarro(c) ==
    /\ lock = "livre" /\ lock' = "livre"
    /\ estado_compartilhado'[ChavePos[c]] = carro'[c].posicao
    /\ \A d \in Carros \ {c} : carro'[d] = carro[d]
    /\ pessoa' = pessoa /\ controlador' = controlador /\ renderizador' = renderizador

\* the step was taken by pedestrian p alone, which took the lock for the
\* write and wrote its own position
EscritaDaPessoa(p) ==
    /\ lock = "livre" /\ lock' = "livre"
    /\ estado_compartilhado'[ChavePos[p]] = pessoa'[p].posicao
    /\ \A q \in Pessoas \ {p} : pessoa'[q] = pessoa[q]
    /\ carro' = carro /\ controlador' = controlador /\ renderizador' = renderizador

\* C13: every key of the shared state has one writer, and every write is made
\* while the writer holds the lock: a step that changes a key changes only
\* keys of one owner and is a step of that owner holding the lock (an agent
\* its own position, the controller the two lights, the renderer the flag);
\* no step adds or removes a key
C13_UmEscritorPorChave ==
    [][/\ DOMAIN estado_compartilhado' = DOMAIN estado_compartilhado
       /\ ChavesMudadas # {} =>
            \/ /\ ChavesMudadas \subseteq {"estado_semaforo_v", "estado_semaforo_h"}
               /\ EscritaDoControlador
            \/ /\ ChavesMudadas = {"simulacao_ativa"}
               /\ EscritaDoRenderizador
            \/ \E c \in Carros : ChavesMudadas = {ChavePos[c]} /\ EscritaDoCarro(c)
            \/ \E p \in Pessoas : ChavesMudadas = {ChavePos[p]} /\ EscritaDaPessoa(p)]_vars

\* every kind of writer has written: the lights are in a later phase, the flag
\* is cleared and both agents have left their start
C13_TodosEscreveram ==
    /\ estado_compartilhado["estado_semaforo_v"] = "vermelho"
    /\ ~ estado_compartilhado["simulacao_ativa"]
    /\ \A c \in Carros : PosDe(c) # PONTOS_DE_PASSAGEM_CARROS["V_START_R"]
    /\ \A p \in Pessoas : PosDe(p) # PONTOS_DE_PASSAGEM_PEDESTRES["P3"]


\* the key f"{id}_angle" that the renderer looks up for a vehicle
\* (main.py:303 and 342)
ChaveAngulo ==
    [Carro_1 |-> "Carro_1_angle", Carro_2 |-> "Carro_2_angle", Carro_3 |-> "Carro_3_angle"]

\* C14: from construction on the shared state holds, for every vehicle, its
\* position and its angle, for every pedestrian its position, and the two
\* light entries
C14_ChavesAposConstrucao ==
    /\ \A c \in Carros : {ChavePos[c], ChaveAngulo[c]} \subseteq DOMAIN estado_compartilhado
    /\ \A p \in Pessoas : ChavePos[p] \in DOMAIN estado_compartilhado
    /\ {"estado_semaforo_v", "estado_semaforo_h"} \subseteq DOMAIN estado_compartilhado


\* ------------------------------------------- properties: the negotiation
\* the responses of vehicle c that wait in a pedestrian's queue
RespostasDe(eu, c) ==
    Cardinality({i \in DOMAIN eu.metas :
                    eu.metas[i].tipo = "resposta_carro_travessia" /\ eu.metas[i].b = c})

\* the requests of pedestrian p that wait in a vehicle's queue
PedidosDe(eu, p) ==
    Cardinality({i \in DOMAIN eu.metas :
                    eu.metas[i].tipo = "pedido_travessia_pedestre" /\ eu.metas[i].a = p})

\* this step puts a request that carries p's identity into c's queue
ChegaPedido(p, c) == PedidosDe(carro'[c], p) > PedidosDe(carro[c], p)

\* this step makes vehicle c hold the pending-request belief for p
AceitaPedido(c, p) == p \notin carro[c].pedindo /\ p \in carro'[c].pedindo

\* this step puts a response that carries c's identity into p's queue
EnviaResposta(c, p) == RespostasDe(pessoa'[p], c) > RespostasDe(pessoa[p], c)

\* C15: the messages of a negotiation come in the order request, response.
\* A request that carries p's identity reaches vehicle c only by p's own plan
\* pedir_permissao_travessia addressed to c; c accepts a request of p only
\* from such a message; a response reaches p only from a vehicle c that holds
\* an accepted request of p, it carries c's identity, and sending it uses the
\* accepted request up, so that c sends at most one response per request it
\* accepted
C15_PedidoDepoisResposta ==
    [][\A c \in Carros : \A p \in Pessoas :
        /\ ChegaPedido(p, c) =>
              /\ pessoa[p].pc = "livre"
              /\ Head(pessoa[p].metas) = Meta("pedir_permissao_travessia", c, None)
              /\ UltimaMeta(carro'[c]) = Meta("pedido_travessia_pedestre", p, None)
              /\ PedidosDe(carro'[c], p) = PedidosDe(carro[c], p) + 1
        /\ AceitaPedido(c, p) =>
              /\ carro[c].pc = "livre"
              /\ Head(carro[c].metas) = Meta("pedido_travessia_pedestre", p, None)
        /\ EnviaResposta(c, p) =>
              /\ p \in carro[c].pedindo
              /\ p \notin carro'[c].pedindo
              /\ UltimaMeta(pessoa'[p]).tipo = "resposta_carro_travessia"
              /\ UltimaMeta(pessoa'[p]).b = c
              /\ RespostasDe(pessoa'[p], c) = RespostasDe(pessoa[p], c) + 1]_vars

\* a pedestrian holds, not yet handled, the response of the vehicle it asked
C15_RespostaRecebida ==
    \E c \in Carros : \E p \in Pessoas :
        /\ RespostasDe(pessoa[p], c) = 1
        /\ pessoa[p].carro_negociando = c
        /\ pessoa[p].pedidos = 1
        /\ carro[c].cedendo # {}


\* the queue `depois` is not the queue `antes` with events added at its end:
\* the agent has taken up the event at the head
ConsomeMeta(antes, depois) ==
    ~ /\ Len(depois.metas) >= Len(antes.metas)
      /\ SubSeq(depois.metas, 1, Len(antes.metas)) = antes.metas

\* vehicle c runs plano_avaliar_pedido
AvaliaPedido(c) ==
    /\ carro[c].pc = "livre"
    /\ ProximaMeta(carro[c]) = "avaliar_pedido_travessia"
    /\ ConsomeMeta(carro[c], carro'[c])

\* the goal aguardar_antes_de_tentar_novamente (plano_espera_curta, lines
\* 775-783) is in the pedestrian's queue
EmEsperaCurta(eu) ==
    \E i \in DOMAIN eu.metas : eu.metas[i].tipo = "aguardar_antes_de_tentar_novamente"

\* a response other than 'concedida' is in the pedestrian's queue
RespostaNegadaNaFila(eu) ==
    \E i \in DOMAIN eu.metas :
        eu.metas[i].tipo = "resposta_carro_travessia" /\ eu.metas[i].a # "concedida"

\* C16: every request a vehicle evaluates is granted: the evaluation adds the
\* yielding belief for (pedestrian, evaluation point), sends 'concedida' to
\* the pedestrian, removes the pending-request belief and goes on to monitor
\* the pedestrian; no other response is ever sent, so no pedestrian ever
\* holds the goal of the short wait before a new attempt
C16_TodoPedidoConcedido ==
    /\ [][\A c \in Carros : AvaliaPedido(c) =>
            LET id_pedestre == Head(carro[c].metas).a
                ponto_avaliacao == Head(carro[c].metas).b
            IN  /\ carro'[c].cedendo = carro[c].cedendo \cup {<<id_pedestre, ponto_avaliacao>>}
                /\ carro'[c].pedindo = carro[c].pedindo \ {id_pedestre}
                /\ id_pedestre \notin carro'[c].pedindo
                /\ pessoa'[id_pedestre].metas =
                      Append(pessoa[id_pedestre].metas,
                             Meta("resposta_carro_travessia", "concedida", c))
                /\ UltimaMeta(carro'[c]) =
                      Meta("monitorar_pedestre_cedendo", id_pedestre, ponto_avaliacao)
                /\ carro'[c].posicao = carro[c].posicao]_vars
    /\ [](\A p \in Pessoas : ~ RespostaNegadaNaFila(pessoa[p]) /\ ~ EmEsperaCurta(pessoa[p]))

\* a vehicle has granted a request and is about to monitor the pedestrian,
\* whose response is on its way
C16_ConcedeuEMonitora ==
    \E c \in Carros : \E p \in Pessoas :
        /\ ProximaMeta(carro[c]) = "monitorar_pedestre_cedendo"
        /\ Head(carro[c].metas).a = p
        /\ <<p, Head(carro[c].metas).b>> \in carro[c].cedendo
        /\ carro[c].pedindo = {}
        /\ RespostasDe(pessoa[p], c) = 1
        /\ pessoa[p].aguardando


\* ---------------------------------------------- properties: the crossing
\* the waypoint pedestrian p is moving to: the target of the move it is in,
\* or the argument of the goal executar_movimento it takes up next
DestinoDoMovimento(eu) ==
    IF eu.pc = "movendo" THEN eu.ponto_alvo_nome
    ELSE IF ProximaMeta(eu) = "executar_movimento" THEN Head(eu.metas).a
    ELSE None

\* pedestrian p takes up a goal executar_movimento for a crossing edge while
\* it does not hold the permission
IniciaSemPermissao(p) ==
    /\ pessoa[p].pc = "livre"
    /\ ProximaMeta(pessoa[p]) = "executar_movimento"
    /\ ETravessia(pessoa[p].ponto_atual, Head(pessoa[p].metas).a)
    /\ ~ pessoa[p].pode_atravessar
    /\ ConsomeMeta(pessoa[p], pessoa'[p])

\* C17: a pedestrian never changes its position along a crossing edge
\* (P1<->P4, P2<->P3) without holding the permission; a move goal for a
\* crossing edge taken up without the permission is given up, with position
\* and waypoint unchanged and the decision goal added; so in every crossing
\* move the permission is held from the first step until the arrival
C17_AtravessaSoComPermissao ==
    /\ [][\A p \in Pessoas :
            /\ (/\ pessoa'[p].posicao # pessoa[p].posicao
                /\ ETravessia(pessoa[p].ponto_atual, DestinoDoMovimento(pessoa[p])))
                  => pessoa[p].pode_atravessar
            /\ IniciaSemPermissao(p) =>
                  /\ pessoa'[p].posicao = pessoa[p].posicao
                  /\ pessoa'[p].ponto_atual = pessoa[p].ponto_atual
                  /\ pessoa'[p].pc = "livre"
                  /\ pessoa'[p].metas = Tail(pessoa[p].metas) \o <<MetaDecidir>>
                  /\ ~ pessoa'[p].pode_atravessar
                  /\ estado_compartilhado' = estado_compartilhado]_vars
    /\ [](\A p \in Pessoas :
            (pessoa[p].pc = "movendo"
             /\ ETravessia(pessoa[p].ponto_atual, pessoa[p].ponto_alvo_nome))
                => pessoa[p].pode_atravessar)

\* a pedestrian is on a crossing edge, between its two waiting points, with
\* the permission a vehicle granted it
C17_NaFaixaComPermissaoDoCarro ==
    \E p \in Pessoas :
        /\ pessoa[p].pc = "movendo"
        /\ ETravessia(pessoa[p].ponto_atual, pessoa[p].ponto_alvo_nome)
        /\ pessoa[p].pode_atravessar
        /\ pessoa[p].concedente # None
        /\ pessoa[p].posicao # PONTOS_DE_PASSAGEM_PEDESTRES[pessoa[p].ponto_atual]


\* --------------------------------------- properties: the evaluation zone
\* the evaluation point of a move from waypoint `atual` to waypoint `alvo`
PontoRelevante(atual, alvo) ==
    IF alvo \in PONTOS_AVALIACAO_CARRO THEN alvo ELSE atual

\* a vehicle at `pos` has not passed the near boundary of the zone of
\* evaluation point `ponto` in its direction of travel (to the left on the
\* horizontal road, upwards on the vertical road)
NaoPassou(ponto, pos) ==
    IF ponto \in {"H_MID_L", "H_MID_R", "PX1_EVAL_H"}
    THEN pos[1] >= MAPA_AVALIACAO_PASSADEIRA[ponto][1]
    ELSE pos[2] >= MAPA_AVALIACAO_PASSADEIRA[ponto][3]

\* a vehicle at `pos`, in a move from `atual` to `alvo` that ends at
\* `pos_alvo`, is before the zone of an evaluation point
NaZonaDeAvaliacao(atual, alvo, pos, pos_alvo) ==
    /\ atual \in PONTOS_AVALIACAO_CARRO \/ alvo \in PONTOS_AVALIACAO_CARRO
    /\ DistMenor(pos, pos_alvo, DISTANCIA_SEGURA_CARRO_PEDESTRE)
    /\ NaoPassou(PontoRelevante(atual, alvo), pos)

\* some pedestrian position of the shared state is inside the zone of `ponto`
PedestreNaZona(ponto) ==
    \E p \in Pessoas : DentroDaZona(PosDe(p), MAPA_AVALIACAO_PASSADEIRA[ponto])

InitCeder ==
    /\ carro = [c \in {NomeCarro[1]} |-> NovoCarro("V_START_L", VelocidadeCarro, FALSE)]
    /\ pessoa = [p \in {NomePessoa[1]} |-> NovaPessoa("P1", VelocidadePessoa, {"P1", "P4"})]
    /\ estado_compartilhado = EstadoInicial(PosicoesDe(carro) @@ PosicoesDe(pessoa))
    /\ relogio = -1
    /\ InitControlador

SpecCeder == InitCeder /\ [][Next]_vars

\* a step of one of the plans of vehicle c
PassoDoCarro(c) ==
    \/ CarroDirigir(c)
    \/ CarroPasso(c)
    \/ CarroRetomar(c)
    \/ CarroReceberPedido(c)
    \/ CarroAvaliar(c)
    \/ CarroLerPedestre(c)
    \/ CarroMonitorar(c)

\* the vehicle's thread keeps running: its waits end and its next plan starts
SpecCederJusta == SpecCeder /\ \A c \in {NomeCarro[1]} : WF_vars(PassoDoCarro(c))

\* the position the vehicle read is inside the rectangle of the evaluation
\* point of the monitoring goal it runs
LidoNaZona(eu) ==
    /\ eu.pos_lida # None
    /\ Head(eu.metas).b \in DOMAIN MAPA_AVALIACAO_PASSADEIRA
    /\ DentroDaZona(eu.pos_lida, MAPA_AVALIACAO_PASSADEIRA[Head(eu.metas).b])

\* the pedestrian of a yielding belief of the vehicle is inside the rectangle
\* of the belief
CedendoNaZona(eu) ==
    \E b \in eu.cedendo :
        DentroDaZona(PosDe(b[1]), MAPA_AVALIACAO_PASSADEIRA[b[2]])

EmMonitoramento(eu) ==
    \/ eu.pc \in {"monitor_lido", "espera_monitor"}
    \/ \E i \in DOMAIN eu.metas : eu.metas[i].tipo = "monitorar_pedestre_cedendo"

\* C20: while a vehicle holds a yielding belief its position does not change
\* and it is monitoring the pedestrian or about to: a vehicle that takes up
\* its driving goal with the belief, or finds it in a pass of its moving
\* loop, takes no movement step and adds the monitoring goal for the belief;
\* a vehicle moves only when it holds no yielding belief
C20_ParadoEnquantoCede ==
    /\ [][\A c \in Carros :
            LET eu == carro[c]
                depois == carro'[c]
            IN  /\ eu.cedendo # {} => depois.posicao = eu.posicao
                /\ depois.posicao # eu.posicao => eu.cedendo = {} /\ depois.cedendo = {}
                /\ (/\ eu.cedendo # {}
                    /\ \/ eu.pc = "livre" /\ ProximaMeta(eu) = "dirigir_para_proximo_ponto"
                          /\ ConsomeMeta(eu, depois)
                       \/ eu.pc = "movendo" /\ depois.pc # "movendo") =>
                      /\ depois.pc = "livre"
                      /\ UltimaMeta(depois).tipo = "monitorar_pedestre_cedendo"
                      /\ <<UltimaMeta(depois).a, UltimaMeta(depois).b>> \in eu.cedendo]_vars
    /\ [](\A c \in Carros :
            carro[c].cedendo # {} => carro[c].pc # "movendo" /\ EmMonitoramento(carro[c]))

\* a vehicle that yields stands in the wait between two checks while the
\* pedestrian is on the crosswalk, inside the rectangle
C20_CedeComPedestreNaFaixa ==
    \E c \in Carros : \E p \in Pessoas :
        /\ carro[c].pc = "espera_monitor"
        /\ carro[c].cedendo # {}
        /\ CedendoNaZona(carro[c])
        /\ pessoa[p].pc = "movendo"
        /\ pessoa[p].pode_atravessar

\* ------------------------------------------------ properties: the response
\* The pedestrian's response handler on each response it can be told.  The
\* pedestrian stands at a waiting point and has sent its request to Carro_1
\* (lines 639-642 and 728) and is about to take up its goal aguardar_resposta;
\* the response in its queue is the input: 'concedida' or 'negada', from
\* Carro_1 or from Carro_2.  The vehicles are not part of the scenario.
InitResposta ==
    /\ carro = Vazio
    /\ pessoa \in [{NomePessoa[1]} ->
          {[NovaPessoa(pt, VelocidadePessoa, DOMAIN PONTOS_DE_PASSAGEM_PEDESTRES) EXCEPT
               !.aguardando = TRUE, !.carro_negociando = NomeCarro[1],
               !.pc = pc0,
               !.desde_pedido = 0, !.pedidos = 1, !.emitidos = 1,
               !.metas = <<MetaAguardar, Meta("resposta_carro_travessia", resposta, de)>>] :
             pt \in PONTOS_ESPERA_PEDESTRE, pc0 \in {"livre"},
             resposta \in {"concedida", "negada"}, de \in {NomeCarro[1], NomeCarro[2]}}]
    /\ estado_compartilhado = EstadoInicial(PosicoesDe(pessoa))
    /\ relogio = -1
    /\ InitControlador

\* a step of one of the plans of pedestrian p
PassoDaPessoa(p) ==
    \/ PessoaDecidir(p)
    \/ PessoaExecutar(p)
    \/ PessoaPasso(p)
    \/ PessoaAguardar(p)
    \/ PessoaTimeout(p)
    \/ PessoaProcessarResposta(p)
    \/ PessoaEsperaCurta(p)
    \/ PessoaRetomar(p)

NextResposta ==
    \/ PassarTempo
    \/ \E p \in Pessoas : PessoaDecidir(p)
    \/ \E p \in Pessoas : PessoaExecutar(p)
    \/ \E p \in Pessoas : PessoaPasso(p)
    \/ \E p \in Pessoas : PessoaAguardar(p)
    \/ \E p \in Pessoas : PessoaTimeout(p)
    \/ \E p \in Pessoas : PessoaProcessarResposta(p)
    \/ \E p \in Pessoas : PessoaEsperaCurta(p)
    \/ \E p \in Pessoas : PessoaRetomar(p)

SpecResposta == InitResposta /\ [][NextResposta]_vars

\* the pedestrian's thread keeps running and time passes
SpecRespostaJusta ==
    /\ SpecResposta
    /\ WF_vars(PassarTempo)
    /\ \A p \in {NomePessoa[1]} : WF_vars(PassoDaPessoa(p))

\* pedestrian p handles the response that waits in its queue
ProcessaResposta(p) ==
    /\ PosicaoResposta(pessoa[p]) # 0
    /\ Len(pessoa'[p].metas) <= Len(pessoa[p].metas)
    /\ pessoa'[p].metas # pessoa[p].metas
    /\ \A i \in DOMAIN pessoa'[p].metas :
          pessoa'[p].metas[i].tipo # "resposta_carro_travessia"

MetaEsperaCurta == Meta("aguardar_antes_de_tentar_novamente", None, None)

\* the pedestrian is in the short wait or has its goal in the queue
EmCooldown(eu) == eu.pc = "espera_curta" \/ EmEsperaCurta(eu)

\* C21: a pedestrian that holds the awaiting-response belief and handles a
\* response of the vehicle it negotiates with clears the belief and the
\* recorded vehicle; on 'concedida' it gains the permission to cross and adds
\* its decision goal; on 'negada' it gains no permission and adds the goal of
\* the short wait, whose plan waits and then adds the decision goal, so the
\* pedestrian decides again after the wait.  A response of another vehicle
\* changes nothing.
C21_RespostaDoCarroNegociando ==
    /\ [][\A p \in Pessoas :
            LET eu == pessoa[p]
                depois == pessoa'[p]
                msg == eu.metas[PosicaoResposta(eu)]
                resto == SemElemento(eu.metas, PosicaoResposta(eu))
            IN  /\ (ProcessaResposta(p) /\ eu.aguardando /\ msg.b = eu.carro_negociando) =>
                      /\ ~ depois.aguardando
                      /\ depois.carro_negociando = None
                      /\ depois.posicao = eu.posicao
                      /\ IF msg.a = "concedida"
                         THEN /\ depois.pode_atravessar
                              /\ depois.metas = Append(resto, MetaDecidir)
                         ELSE /\ depois.pode_atravessar = eu.pode_atravessar
                              /\ ~ depois.pode_atravessar
                              /\ depois.metas = Append(resto, MetaEsperaCurta)
                /\ (ProcessaResposta(p) /\ msg.b # eu.carro_negociando) =>
                      /\ depois.aguardando = eu.aguardando
                      /\ depois.carro_negociando = eu.carro_negociando
                      /\ depois.pode_atravessar = eu.pode_atravessar
                      /\ depois.metas = resto
                /\ (eu.pc = "espera_curta" /\ depois.pc # "espera_curta") =>
                      /\ depois.pc = "livre"
                      /\ depois.posicao = eu.posicao
                      /\ ~ depois.pode_atravessar
                      /\ depois.metas = Append(Tail(eu.metas), MetaDecidir)]_vars
    /\ \A p \in {NomePessoa[1]} :
          EmCooldown(pessoa[p]) ~>
             (pessoa[p].pc = "livre" /\ ProximaMeta(pessoa[p]) = "decidir_movimento")

\* a pedestrian whose request was refused by the vehicle it asked is in the
\* short wait: it awaits no response, records no vehicle and has no permission
C21_EmEsperaAposNegada ==
    \E p \in Pessoas :
        /\ pessoa[p].pc = "espera_curta"
        /\ ~ pessoa[p].aguardando
        /\ pessoa[p].carro_negociando = None
        /\ ~ pessoa[p].pode_atravessar
        /\ pessoa[p].emitidos = 1

\* ------------------------------------- properties: the pedestrian's choice
\* the fixed table of opposite waiting points
PontoOposto == [P1 |-> "P4", P4 |-> "P1", P2 |-> "P3", P3 |-> "P2"]

\* pedestrian p takes up the move goal at the head of its queue
TomaMovimento(p) ==
    /\ pessoa[p].pc = "livre"
    /\ ProximaMeta(pessoa[p]) = "executar_movimento"
    /\ ConsomeMeta(pessoa[p], pessoa'[p])

\* C22: a pedestrian that decides while it holds the permission to cross and
\* stands at a waiting point chooses the opposite waiting point of the table
\* (P1->P4, P4->P1, P2->P3, P3->P2) and no other successor: the only goal
\* the decision adds is the move to that point, it issues no request and
\* keeps the permission; the move goal, taken up with the permission, takes
\* the pedestrian onto the edge to that point.  The permission is never held
\* together with the awaiting-response belief.
C22_EscolheOPontoOposto ==
    /\ [][\A p \in Pessoas :
            LET eu == pessoa[p]
                depois == pessoa'[p]
            IN  /\ (/\ TomaDecisao(p)
                    /\ eu.pode_atravessar
                    /\ eu.ponto_atual \in PONTOS_ESPERA_PEDESTRE) =>
                      /\ depois.metas =
                            Append(Tail(eu.metas), MetaExecutar(PontoOposto[eu.ponto_atual]))
                      /\ depois.pode_atravessar
                      /\ ~ depois.aguardando
                      /\ depois.emitidos = eu.emitidos
                      /\ depois.posicao = eu.posicao
                      /\ depois.ponto_atual = eu.ponto_atual
                /\ (/\ TomaMovimento(p)
                    /\ eu.pode_atravessar
                    /\ eu.ponto_atual \in PONTOS_ESPERA_PEDESTRE
                    /\ Head(eu.metas).a = PontoOposto[eu.ponto_atual]) =>
                      /\ depois.pc = "movendo"
                      /\ depois.ponto_alvo_nome = PontoOposto[eu.ponto_atual]
                      /\ depois.posicao =
                            Passo(eu.posicao,
                                  PONTOS_DE_PASSAGEM_PEDESTRES[PontoOposto[eu.ponto_atual]],
                                  eu.velocidade)
                      /\ depois.pode_atravessar]_vars
    /\ [](\A p \in Pessoas : pessoa[p].pode_atravessar => ~ pessoa[p].aguardando)

\* a pedestrian that a vehicle granted the permission has decided at its
\* waiting point and is about to move to the opposite point
C22_VaiAoPontoOposto ==
    \E p \in Pessoas :
        /\ pessoa[p].pc = "livre"
        /\ pessoa[p].pode_atravessar
        /\ pessoa[p].concedente # None
        /\ pessoa[p].ponto_atual \in PONTOS_ESPERA_PEDESTRE
        /\ pessoa[p].posicao = PONTOS_DE_PASSAGEM_PEDESTRES[pessoa[p].ponto_atual]
        /\ pessoa[p].metas = <<MetaExecutar(PontoOposto[pessoa[p].ponto_atual])>>

\* ------------------------------------ properties: the pedestrian's arrival
\* pedestrian p ends a move in this step: the loop of lines 678-690 is left,
\* at once when the move goal is taken up within the arrival distance
Chega(p) ==
    /\ pessoa'[p].pc = "livre"
    /\ \/ pessoa[p].pc = "movendo"
       \/ /\ TomaMovimento(p)
          /\ ~ (/\ ETravessia(pessoa[p].ponto_atual, Head(pessoa[p].metas).a)
                /\ ~ pessoa[p].pode_atravessar)

\* C23: a pedestrian that arrives at the destination of a move has the exact
\* coordinate of the destination as its position, in the shared state too,
\* has the destination as its current waypoint, does not hold the permission
\* to cross, and has added its decision goal.  A pedestrian that runs no move
\* stands on the coordinate of its current waypoint, and the shared state
\* always holds the pedestrian's position.
C23_ChegadaAoDestino ==
    /\ [][\A p \in Pessoas :
            Chega(p) =>
               LET destino == DestinoDoMovimento(pessoa[p])
               IN  /\ pessoa'[p].posicao = PONTOS_DE_PASSAGEM_PEDESTRES[destino]
                   /\ estado_compartilhado'[ChavePos[p]] = PONTOS_DE_PASSAGEM_PEDESTRES[destino]
                   /\ pessoa'[p].ponto_atual = destino
                   /\ ~ pessoa'[p].pode_atravessar
                   /\ pessoa'[p].metas = Append(Tail(pessoa[p].metas), MetaDecidir)]_vars
    /\ [](\A p \in Pessoas :
            /\ PosDe(p) = pessoa[p].posicao
            /\ pessoa[p].pc # "movendo" =>
                  pessoa[p].posicao = PONTOS_DE_PASSAGEM_PEDESTRES[pessoa[p].ponto_atual])

\* a pedestrian has crossed with the permission of a vehicle and stands on the
\* far waiting point, without the permission, about to decide
C23_ChegouDoOutroLado ==
    \E p \in Pessoas :
        /\ pessoa[p].pc = "livre"
        /\ pessoa[p].metas = <<MetaDecidir>>
        /\ pessoa[p].ponto_atual \in {"P2", "P4"}
        /\ PosDe(p) = PONTOS_DE_PASSAGEM_PEDESTRES[pessoa[p].ponto_atual]
        /\ ~ pessoa[p].pode_atravessar
        /\ pessoa[p].emitidos >= 1
        /\ \E c \in Carros : carro[c].cedendo # {}

\* ------------------------------------------ properties: the nearest vehicle
\* main.py:239-271 with two vehicles that start on the horizontal road and
\* are followed to the end of their first route, and one pedestrian that
\* starts at P1 and is followed to P2 and on the crosswalk between P2 and P3,
\* while the lights stay in their first phase (red for the horizontal road)
InitProximo ==
    /\ carro \in [{NomeCarro[1], NomeCarro[2]} ->
                    {NovoCarro(pt, VelocidadeCarro, FALSE) : pt \in PONTOS_INICIAIS_HORIZONTAIS}]
    /\ pessoa = [p \in {NomePessoa[1]} |-> NovaPessoa("P1", VelocidadePessoa, {"P2", "P3"})]
    /\ estado_compartilhado = EstadoInicial(PosicoesDe(carro) @@ PosicoesDe(pessoa))
    /\ relogio = -1
    /\ InitControlador

SpecProximo == InitProximo /\ [][Next]_vars

\* the vehicles whose published position is strictly within the safety radius
\* of pedestrian p
NoRaio(p) ==
    {c \in Carros : /\ ChavePos[c] \in DOMAIN estado_compartilhado
                    /\ Dist2(PosDe(c), pessoa[p].posicao) <
                          DISTANCIA_SEGURA_CARRO_PEDESTRE * DISTANCIA_SEGURA_CARRO_PEDESTRE}

\* C24: a pedestrian at a waiting point that decides without the permission
\* and without the awaiting-response belief, while some vehicle position of
\* the shared state is strictly within the safety radius (150), either
\* picks a move that is no crossing and queues it, or picks the crossing and
\* then queues the crossing request for a vehicle at minimum distance among
\* those within the radius, followed by the wait for the response, records
\* that vehicle as the one it negotiates with, gains the awaiting-response
\* belief, gets no permission and does not move; the request goal, when it is
\* taken up, puts the request in the queue of the vehicle it names.
C24_PedeAoCarroMaisProximo ==
    [][\A p \in Pessoas :
        LET eu == pessoa[p]
            depois == pessoa'[p]
        IN  /\ (/\ TomaDecisao(p)
                /\ eu.ponto_atual \in PONTOS_ESPERA_PEDESTRE
                /\ ~ eu.aguardando
                /\ ~ eu.pode_atravessar
                /\ NoRaio(p) # {}) =>
                  \/ \E d \in Elementos(CAMINHOS_PEDESTRES[eu.ponto_atual]) :
                        /\ d # PontoOposto[eu.ponto_atual]
                        /\ depois.metas = Append(Tail(eu.metas), MetaExecutar(d))
                        /\ ~ depois.aguardando
                        /\ ~ depois.pode_atravessar
                  \/ \E c \in NoRaio(p) :
                        /\ \A u \in NoRaio(p) :
                              Dist2(PosDe(c), eu.posicao) <= Dist2(PosDe(u), eu.posicao)
                        /\ depois.metas =
                              Tail(eu.metas) \o
                                <<Meta("pedir_permissao_travessia", c, None), MetaAguardar>>
                        /\ depois.carro_negociando = c
                        /\ depois.aguardando
                        /\ ~ depois.pode_atravessar
                        /\ depois.pc = "livre"
                        /\ depois.posicao = eu.posicao
                        /\ depois.ponto_atual = eu.ponto_atual
                        /\ estado_compartilhado' = estado_compartilhado
            /\ EnviaPedido(p) =>
                  /\ Head(eu.metas).a \in Carros
                  /\ carro' = [carro EXCEPT ![Head(eu.metas).a].metas =
                                  Append(@, Meta("pedido_travessia_pedestre", p, None))]
                  /\ depois.posicao = eu.posicao
                  /\ depois.aguardando = eu.aguardando]_vars

\* a pedestrian stands at a waiting point with two vehicles within the radius
\* at different distances, negotiates with the nearer one and its request is
\* in that vehicle's queue
C24_PedidoNoMaisProximo ==
    \E p \in Pessoas : \E c \in NoRaio(p) : \E o \in NoRaio(p) :
        /\ Dist2(PosDe(c), pessoa[p].posicao) < Dist2(PosDe(o), pessoa[p].posicao)
        /\ pessoa[p].ponto_atual \in PONTOS_ESPERA_PEDESTRE
        /\ pessoa[p].posicao = PONTOS_DE_PASSAGEM_PEDESTRES[pessoa[p].ponto_atual]
        /\ pessoa[p].aguardando
        /\ pessoa[p].carro_negociando = c
        /\ PedidosDe(carro[c], p) > 0
        /\ PedidosDe(carro[o], p) = 0


\* --------------------------------------- properties: the vehicle's next pick
\* the successors of waypoint `ponto` in the vehicle graph
Sucessores(ponto) == {CAMINHOS_CARROS[ponto][i] : i \in DOMAIN CAMINHOS_CARROS[ponto]}

\* the successors a vehicle may pick: all but the previous waypoint, unless
\* the previous waypoint is the only one
Restantes(eu) ==
    IF Sucessores(eu.ponto_atual) \ {eu.ponto_anterior} # {}
    THEN Sucessores(eu.ponto_atual) \ {eu.ponto_anterior}
    ELSE Sucessores(eu.ponto_atual)

\* vehicle c is about to decide, and the decision picks a next waypoint: it
\* does not yield, is not at a dead end and has no stop target
VaiEscolher(c) ==
    /\ lock = "livre"
    /\ carro[c].pc = "livre"
    /\ ProximaMeta(carro[c]) = "dirigir_para_proximo_ponto"
    /\ carro[c].cedendo = {}
    /\ Sucessores(carro[c].ponto_atual) # {}
    /\ PontoDeParadaAlvo(carro[c], c) = None

\* the decision vehicle c is about to take can pick waypoint s: the run of
\* plano_dirigir with that value of random.choice makes s the target, or the
\* current waypoint when the vehicle is already at its coordinate
PodeEscolher(c, s) ==
    \E escolha \in EscolhasDirigir(carro[c], c) :
        LET depois == PlanoDirigir(carro[c], c, escolha).eu
        IN  \/ depois.ponto_alvo_atual = s /\ depois.ponto_atual = carro[c].ponto_atual
            \/ depois.ponto_atual = s /\ depois.ponto_anterior = carro[c].ponto_atual

\* C25: the waypoint a vehicle's decision picks as its target is a successor
\* of its current waypoint in the vehicle graph and is not its immediately
\* previous waypoint when the current waypoint has another successor (also
\* when the vehicle is already at the picked waypoint's coordinate and makes
\* it its current waypoint in the same step); the target a vehicle holds is
\* always such a waypoint; and at every decision that picks, each successor
\* other than the previous waypoint can be the pick.
C25_EscolhaDoProximoPonto ==
    /\ [][\A c \in Carros :
            /\ (/\ DecideDirigir(c)
                /\ carro'[c].ponto_atual = carro[c].ponto_atual
                /\ carro'[c].ponto_alvo_atual # None) =>
                   /\ carro'[c].ponto_alvo_atual \in Sucessores(carro[c].ponto_atual)
                   /\ Sucessores(carro[c].ponto_atual) \ {carro[c].ponto_anterior} # {} =>
                         carro'[c].ponto_alvo_atual # carro[c].ponto_anterior
            /\ (/\ DecideDirigir(c)
                /\ Sucessores(carro[c].ponto_atual) # {}
                /\ carro'[c].ponto_atual # carro[c].ponto_atual) =>
                   /\ carro'[c].ponto_atual \in Sucessores(carro[c].ponto_atual)
                   /\ Sucessores(carro[c].ponto_atual) \ {carro[c].ponto_anterior} # {} =>
                         carro'[c].ponto_atual # carro[c].ponto_anterior]_vars
    /\ [](\A c \in Carros :
            /\ carro[c].ponto_alvo_atual # None => carro[c].ponto_alvo_atual \in Restantes(carro[c])
            /\ VaiEscolher(c) => \A s \in Restantes(carro[c]) : PodeEscolher(c, s))

\* a vehicle that changed from the left to the centre lane has picked the
\* right lane as its next target and not the lane it came from
C25_NaoVoltaParaAFaixaAnterior ==
    \E c \in Carros :
        /\ carro[c].ponto_atual = "V_CHANGE_C"
        /\ carro[c].ponto_anterior = "V_CHANGE_L"
        /\ carro[c].ponto_alvo_atual = "V_CHANGE_R"
        /\ carro[c].pc = "movendo"


\* ------------------------------------------- properties: the lane change
\* the edges of the vehicle graph between two lanes of the same road
TrocasDeFaixa ==
    {<<"V_CHANGE_L", "V_CHANGE_C">>, <<"V_CHANGE_C", "V_CHANGE_L">>,
     <<"V_CHANGE_C", "V_CHANGE_R">>, <<"V_CHANGE_R", "V_CHANGE_C">>,
     <<"H_CHANGE_R", "H_CHANGE_L">>, <<"H_CHANGE_L", "H_CHANGE_R">>}

\* the published position of vehicle o is in the lane of waypoint `alvo`,
\* inside the lookahead window of vehicle c: closer than 200, less than half
\* a vehicle's width (length, on the horizontal road) off the lane's axis, and
\* along the road less than 80 (40) behind c and less than 200 ahead of it
NaJanela(c, alvo, o) ==
    LET eu == carro[c].posicao
        outro == PosDe(o)
        eixo == PONTOS_DE_PASSAGEM_CARROS[alvo]
    IN  /\ Dist2(eu, outro) < 200 * 200
        /\ IF carro[c].ponto_atual \in DOMAIN CAMINHOS_CARROS /\ ComecaComV(carro[c].ponto_atual)
           THEN /\ Abs(outro[1] - eixo[1]) < 20
                /\ outro[2] > eu[2] - 80
                /\ outro[2] < eu[2] + 200
           ELSE /\ Abs(outro[2] - eixo[2]) < 40
                /\ outro[1] > eu[1] - 40
                /\ outro[1] < eu[1] + 200

FaixaOcupada(c, alvo) ==
    \E o \in Carros \ {c} : ChavePos[o] \in DOMAIN estado_compartilhado /\ NaJanela(c, alvo, o)

\* C26: the moves classified as lane changes are the graph's edges between
\* lanes; a decision whose target is such an edge starts the move (takes a
\* step, or enters the loop) only if no other vehicle's position in the
\* shared state at that decision is in the destination lane inside the
\* lookahead window; if one is there, the decision ends in the wait with the
\* position, the current waypoint and the shared state unchanged, and the end
\* of the wait clears the target, keeps position and waypoint and adds the
\* driving goal again.
C26_TrocaDeFaixaSoComFaixaLivre ==
    /\ [](\A c \in Carros : \A t \in Sucessores(carro[c].ponto_atual) :
            ETrocaDeFaixa(carro[c].ponto_atual, t) <=>
                <<carro[c].ponto_atual, t>> \in TrocasDeFaixa)
    /\ [][\A c \in Carros :
            LET eu == carro[c]
                depois == carro'[c]
                t == depois.ponto_alvo_atual
            IN  /\ (/\ DecideDirigir(c)
                    /\ <<eu.ponto_atual, t>> \in TrocasDeFaixa
                    /\ \/ depois.pc = "movendo" /\ depois.ponto_alvo_nome = t
                       \/ depois.posicao # eu.posicao) => ~ FaixaOcupada(c, t)
                /\ (/\ DecideDirigir(c)
                    /\ eu.cedendo = {}
                    /\ <<eu.ponto_atual, t>> \in TrocasDeFaixa
                    /\ depois # eu
                    /\ FaixaOcupada(c, t)) =>
                      /\ depois.pc = "espera_faixa"
                      /\ depois.posicao = eu.posicao
                      /\ depois.ponto_atual = eu.ponto_atual
                      /\ depois.ponto_anterior = eu.ponto_anterior
                      /\ depois.metas = eu.metas
                      /\ estado_compartilhado' = estado_compartilhado
                /\ (eu.pc = "espera_faixa" /\ depois # eu) =>
                      /\ depois.pc = "livre"
                      /\ depois.ponto_alvo_atual = None
                      /\ depois.posicao = eu.posicao
                      /\ depois.ponto_atual = eu.ponto_atual
                      /\ depois.ponto_anterior = eu.ponto_anterior
                      /\ depois.metas = Append(Tail(eu.metas), MetaDirigir)
                      /\ estado_compartilhado' = estado_compartilhado]_vars

\* a vehicle waits at its lane-change waypoint because another vehicle is in
\* the lane it picked
C26_EsperaPelaFaixa ==
    \E c \in Carros :
        /\ carro[c].pc = "espera_faixa"
        /\ <<carro[c].ponto_atual, carro[c].ponto_alvo_atual>> \in TrocasDeFaixa
        /\ FaixaOcupada(c, carro[c].ponto_alvo_atual)
        /\ carro[c].posicao = PONTOS_DE_PASSAGEM_CARROS[carro[c].ponto_atual]


\* ---------------------------------------------- properties: the stop target
\* the stop waypoint the decision of vehicle c is about: its current
\* waypoint, else its target, when that is a stop waypoint
ParadaDe(c) ==
    IF carro[c].ponto_atual \in {"V_MID_L", "V_MID_C", "V_MID_R", "H_MID_L", "H_MID_R"}
    THEN carro[c].ponto_atual
    ELSE IF carro[c].ponto_alvo_atual \in {"V_MID_L", "V_MID_C", "V_MID_R", "H_MID_L", "H_MID_R"}
    THEN carro[c].ponto_alvo_atual
    ELSE None

EVertical(nome) == nome \in {"V_MID_L", "V_MID_C", "V_MID_R"}

\* the vehicles of the shared state in the lane of vehicle c (less than 20
\* off its axis), ahead of c, not past the stop line of `nome`, and closer to
\* the stop line than c
FilaAFrente(c, nome) ==
    LET eu == carro[c].posicao
        linha == PONTOS_DE_PASSAGEM_CARROS[nome]
    IN  {o \in Carros \ {c} :
            /\ ChavePos[o] \in DOMAIN estado_compartilhado
            /\ IF EVertical(nome)
               THEN /\ Abs(PosDe(o)[1] - eu[1]) < 20
                    /\ PosDe(o)[2] < eu[2] /\ PosDe(o)[2] >= linha[2]
               ELSE /\ Abs(PosDe(o)[2] - eu[2]) < 20
                    /\ PosDe(o)[1] < eu[1] /\ PosDe(o)[1] >= linha[1]
            /\ Dist2(PosDe(o), linha) < Dist2(eu, linha)}

\* the stop targets the decision of vehicle c may take (None: no stop target)
AlvosDeParada(c) ==
    LET nome == ParadaDe(c)
        linha == PONTOS_DE_PASSAGEM_CARROS[nome]
        fila == FilaAFrente(c, nome)
        cor == IF EVertical(nome) THEN percepts.semaforo_v ELSE percepts.semaforo_h
    IN  IF fila # {}
        THEN {IF EVertical(nome) THEN <<PosDe(f)[1], PosDe(f)[2] + 80 + 40>>
                                 ELSE <<PosDe(f)[1] + 40 + 40, PosDe(f)[2]>> :
                f \in {g \in fila : \A u \in fila :
                                       Dist2(PosDe(g), linha) <= Dist2(PosDe(u), linha)}}
        ELSE IF cor \in {"vermelho", "amarelo"} THEN {linha}
        ELSE {None}

ChegaCarro(c) ==
    /\ carro[c].pc = "movendo"
    /\ 4 * Dist2(carro[c].posicao, carro[c].posicao_alvo) <
          carro[c].velocidade * carro[c].velocidade
    /\ carro'[c] # carro[c]

\* C28 as stated: whenever a vehicle's move ends by arriving within half its
\* speed of its target, its position becomes the target coordinate and is
\* published, its previous waypoint becomes the old current waypoint and its
\* current waypoint the waypoint it was heading to.
C28_ChegadaAtualizaPontos ==
    [][\A c \in Carros :
        ChegaCarro(c) =>
            /\ carro'[c].posicao = carro[c].posicao_alvo
            /\ estado_compartilhado'[ChavePos[c]] = carro[c].posicao_alvo
            /\ carro'[c].ponto_anterior = carro[c].ponto_atual
            /\ carro'[c].ponto_atual = carro[c].ponto_alvo_nome]_vars

\* C28 amended: whenever a vehicle's move ends by arriving within half its
\* speed of its target, its position becomes the target coordinate and is
\* published and the driving goal is added again.  If the target was a
\* waypoint (no stop target), the previous waypoint becomes the old current
\* waypoint, the current waypoint the waypoint it was heading to, whose
\* coordinate is the new position, and the target is cleared; if the target
\* was a stop target (the stop line or the place behind the vehicle ahead),
\* previous waypoint, current waypoint and target stay as they were.
C28_ChegadaAoPontoOuAParada ==
    [][\A c \in Carros :
        LET eu == carro[c]
            depois == carro'[c]
        IN  ChegaCarro(c) =>
              /\ depois.posicao = eu.posicao_alvo
              /\ estado_compartilhado'[ChavePos[c]] = eu.posicao_alvo
              /\ depois.pc = "livre"
              /\ depois.metas = Append(Tail(eu.metas), MetaDirigir)
              /\ IF eu.parar_no_semaforo
                 THEN /\ depois.ponto_anterior = eu.ponto_anterior
                      /\ depois.ponto_atual = eu.ponto_atual
                      /\ depois.ponto_alvo_atual = eu.ponto_alvo_atual
                 ELSE /\ depois.ponto_anterior = eu.ponto_atual
                      /\ depois.ponto_atual = eu.ponto_alvo_nome
                      /\ depois.ponto_alvo_atual = None
                      /\ depois.posicao = PONTOS_DE_PASSAGEM_CARROS[depois.ponto_atual]]_vars

\* a vehicle has arrived at the stop line of the left lane and stands on the
\* coordinate of V_MID_L while its current waypoint is still V_CHANGE_L
C28_NaLinhaSemTrocarDePonto ==
    \E c \in Carros :
        /\ carro[c].pc = "livre"
        /\ carro[c].posicao = PONTOS_DE_PASSAGEM_CARROS["V_MID_L"]
        /\ PosDe(c) = carro[c].posicao
        /\ carro[c].ponto_atual = "V_CHANGE_L"
        /\ carro[c].ponto_anterior = "V_START_L"
        /\ carro[c].ponto_alvo_atual = "V_MID_L"


\* ------------------------------------------------ properties: the respawn
\* AgenteCarro(name, ponto_inicial, ...) for one vehicle whose start waypoint
\* is a start waypoint, a waypoint without outgoing edge or a name that is no
\* key of the graph, followed through its respawns while the lights stay in
\* their first phase; no other agent
InitRenascer ==
    /\ \E pt \in PONTOS_INICIAIS_VERTICAIS \cup PONTOS_INICIAIS_HORIZONTAIS
                 \cup {"V_END_C", "V_END_R", "H_END_L"} \cup NomesForaDoGrafo :
          carro = [c \in {NomeCarro[1]} |-> NovoCarro(pt, VelocidadeCarro, TRUE)]
    /\ pessoa = Vazio
    /\ estado_compartilhado = EstadoInicial(PosicoesDe(carro))
    /\ relogio = -1
    /\ InitControlador

NextRenascer ==
    \/ \E c \in Carros : CarroDirigir(c)
    \/ \E c \in Carros : CarroPasso(c)

SpecRenascer == InitRenascer /\ [][NextRenascer]_vars

\* the vehicle's thread keeps running
SpecRenascerJusta == SpecRenascer /\ \A c \in {NomeCarro[1]} : WF_vars(PassoDoCarro(c))

\* the current waypoint of vehicle c has no outgoing edge or is no key of the
\* vehicle graph
SemSaida(c) ==
    \/ carro[c].ponto_atual \notin DOMAIN CAMINHOS_CARROS
    \/ CAMINHOS_CARROS[carro[c].ponto_atual] = <<>>

VaiDecidir(c) ==
    carro[c].pc = "livre" /\ ProximaMeta(carro[c]) = "dirigir_para_proximo_ponto"

\* C29: a vehicle whose current waypoint has no outgoing edge, or is no key
\* of the vehicle graph, respawns at its next decision: its current waypoint
\* becomes a vertical start after V_END*, a horizontal start after H_END*,
\* any start otherwise; the old current waypoint becomes the previous one, the
\* position becomes the start's coordinate and is published, the target is
\* cleared and the driving goal is added again.  No vehicle's cycle is ever
\* stopped, no vehicle is ever without a goal, and, with its thread running,
\* a vehicle at such a waypoint is on the move again later.
C29_RenasceNoInicio ==
    /\ [][\A c \in Carros :
            LET eu == carro[c]
                depois == carro'[c]
            IN  (VaiDecidir(c) /\ SemSaida(c) /\ depois # eu) =>
                  /\ depois.ponto_atual \in
                        IF eu.ponto_atual \in {"V_END_C", "V_END_R", "V_END_L"}
                        THEN {"V_START_L", "V_START_C", "V_START_R"}
                        ELSE IF eu.ponto_atual = "H_END_L"
                        THEN {"H_START_R", "H_START_L"}
                        ELSE {"V_START_L", "V_START_C", "V_START_R", "H_START_R", "H_START_L"}
                  /\ depois.ponto_anterior = eu.ponto_atual
                  /\ depois.posicao = PONTOS_DE_PASSAGEM_CARROS[depois.ponto_atual]
                  /\ estado_compartilhado'[ChavePos[c]] = depois.posicao
                  /\ depois.ponto_alvo_atual = None
                  /\ depois.pc = "livre"
                  /\ depois.metas = Append(Tail(eu.metas), MetaDirigir)]_vars
    /\ [](\A c \in Carros : carro[c].pc # "parado" /\ (carro[c].pc = "livre" => carro[c].metas # <<>>))
    /\ \A c \in {NomeCarro[1]} : (SemSaida(c) ~> carro[c].pc = "movendo")

\* a vehicle that reached the end of the centre lane has started again at a
\* vertical start waypoint
C29_RenasceuDepoisDoFim ==
    \E c \in Carros :
        /\ carro[c].ponto_anterior = "V_END_C"
        /\ carro[c].ponto_atual \in PONTOS_INICIAIS_VERTICAIS
        /\ carro[c].posicao = PONTOS_DE_PASSAGEM_CARROS[carro[c].ponto_atual]
        /\ PosDe(c) = carro[c].posicao
        /\ VaiDecidir(c)


\* ------------------------------------- properties: the pending request
\* C30: whenever a vehicle holds the pending-request belief for a
\* pedestrian, that pedestrian holds the awaiting-response belief and records
\* that vehicle as the one it negotiates with; so the pending request does
\* not outlive the pedestrian's timeout.
C30_PedidoPendenteDeQuemEspera ==
    \A c \in Carros : \A p \in carro[c].pedindo :
        /\ p \in Pessoas
        /\ pessoa[p].aguardando
        /\ pessoa[p].carro_negociando = c


\* ------------------------------------- properties: one yielding vehicle
\* C31: at any instant at most one vehicle holds a yielding belief for a
\* given pedestrian, also after the pedestrian has timed out on one vehicle
\* and sent a new request to another.
C31_UmSoCarroCede ==
    \A p \in Pessoas : \A c \in Carros : \A d \in Carros :
        (CedeA(c, p) /\ CedeA(d, p)) => c = d


\* ------------------------------------- properties: the ignored response
\* the responses of vehicles in a pedestrian's queue
RespostasNaFila(eu) ==
    Cardinality({i \in DOMAIN eu.metas : eu.metas[i].tipo = "resposta_carro_travessia"})

\* pedestrian p takes a response out of its queue and handles it
TomaResposta(p) == RespostasNaFila(pessoa'[p]) < RespostasNaFila(pessoa[p])

\* C32: a pedestrian that handles a response whose vehicle is not the one it
\* negotiates with (also a response that comes after its timeout has cleared
\* that record) only drops the response: its beliefs, the recorded vehicle,
\* its other goals, its running plan, its position and its current waypoint
\* stay as they were, and so does the shared state; it gets no permission
\* and keeps the awaiting-response belief if it holds it.
C32_RespostaDeOutroCarro ==
    [][\A p \in Pessoas :
        LET eu == pessoa[p]
            i == PosicaoResposta(eu)
        IN  (TomaResposta(p) /\ eu.metas[i].b # eu.carro_negociando) =>
               /\ pessoa'[p] = [eu EXCEPT !.metas = SemElemento(eu.metas, i)]
               /\ pessoa'[p].pode_atravessar = eu.pode_atravessar
               /\ pessoa'[p].aguardando = eu.aguardando
               /\ pessoa'[p].posicao = eu.posicao
               /\ pessoa'[p].ponto_atual = eu.ponto_atual
               /\ estado_compartilhado' = estado_compartilhado]_vars

\* a vehicle has granted and yields to a pedestrian that has handled the
\* response while it was waiting for another vehicle: the pedestrian still
\* waits for that other vehicle and has no permission
C32_IgnorouAConcessao ==
    \E p \in Pessoas : \E c \in Carros :
        /\ CedeA(c, p)
        /\ RespostasNaFila(pessoa[p]) = 0
        /\ pessoa[p].aguardando
        /\ pessoa[p].carro_negociando \in Carros \ {c}
        /\ ~ pessoa[p].pode_atravessar
        /\ pessoa[p].concedente = None


\* ------------------------------------- properties: the pair of percepts
\* the pair of colours the percepts of the environment show
ParPercepts == <<percepts.semaforo_v, percepts.semaforo_h>>

\* C33: at every instant, also between the two percept updates of one change
\* of phase, the pair (semaforo_v, semaforo_h) is one of the four phases of
\* the controller, and the vertical light is never seen green while the
\* horizontal light is not red.
C33_ParDePerceptsEFase ==
    /\ \E i \in DOMAIN estados : ParPercepts = estados[i]
    /\ percepts.semaforo_v = "verde" => percepts.semaforo_h = "vermelho"


\* ------------------------------------- properties: the beliefs of a negotiation
\* C34: a pedestrian never holds the awaiting-response belief together with
\* the permitted-to-cross belief, and it records a negotiating vehicle exactly
\* when it holds the awaiting-response belief.
C34_CrencasDaNegociacao ==
    \A p \in Pessoas :
        /\ ~ (pessoa[p].aguardando /\ pessoa[p].pode_atravessar)
        /\ pessoa[p].aguardando <=> pessoa[p].carro_negociando # None


\* a pedestrian that a vehicle has answered: it holds the permission of that
\* vehicle, no awaiting-response belief and no recorded vehicle
C34_PermissaoDepoisDaResposta ==
    \E p \in Pessoas :
        /\ pessoa[p].pode_atravessar
        /\ pessoa[p].concedente \in Carros
        /\ ~ pessoa[p].aguardando
        /\ pessoa[p].carro_negociando = None


\* ------------------------------------- properties: where permission is held
\* C35: a pedestrian that holds the permitted-to-cross belief has one of the
\* waiting points P1-P4 as current waypoint and, if it moves, moves along a
\* crossing edge (P1<->P4 or P2<->P3).
C35_PermissaoSoNaTravessia ==
    \A p \in Pessoas :
        pessoa[p].pode_atravessar =>
            /\ pessoa[p].ponto_atual \in {"P1", "P2", "P3", "P4"}
            /\ pessoa[p].pc = "movendo" =>
                  {pessoa[p].ponto_atual, pessoa[p].ponto_alvo_nome}
                      \in {{"P1", "P4"}, {"P2", "P3"}}


\* ------------------------------------- properties: one thread of control
\* the goals that carry an agent's control from one plan to the next
MetasDeControlePessoa ==
    {"decidir_movimento", "executar_movimento", "aguardar_resposta",
     "aguardar_antes_de_tentar_novamente"}
MetasDeControleCarro ==
    {"dirigir_para_proximo_ponto", "avaliar_pedido_travessia",
     "monitorar_pedestre_cedendo"}

\* the control goals an agent has pending or running (the goal of the plan
\* that runs stays at the head of the queue until the plan ends)
NumeroDeControles(agente, tipos) ==
    Cardinality({i \in DOMAIN agente.metas : agente.metas[i].tipo \in tipos})

\* a pedestrian's control goals; the plan of aguardar_resposta that is still
\* in its wait after the response handler has removed the awaiting belief
\* ends without adding a goal (lines 768-773) and is not counted
ControlesDaPessoa(eu) ==
    Cardinality({i \in DOMAIN eu.metas :
                    /\ eu.metas[i].tipo \in MetasDeControlePessoa
                    /\ ~ (i = 1 /\ eu.pc = "aguardando" /\ ~ eu.aguardando)})

\* C36: in every reachable state a pedestrian has exactly one pending or
\* running control goal among decide / move / await-response / cooldown and
\* a vehicle exactly one among drive / evaluate-request / monitor-yield.
C36_UmaMetaDeControle ==
    /\ \A p \in Pessoas : ControlesDaPessoa(pessoa[p]) = 1
    /\ \A c \in Carros : NumeroDeControles(carro[c], MetasDeControleCarro) = 1


\* ------------------------------------- properties: back to the decision
\* the pedestrian's thread keeps running (its next plan starts, its sleeps
\* and waits end) and time passes; nothing is asked of the vehicles
SpecJusta ==
    /\ SpecCeder
    /\ WF_vars(PassarTempo)
    /\ \A p \in {NomePessoa[1]} : WF_vars(PassoDaPessoa(p))
    /\ \A p \in {NomePessoa[1]} : WF_vars(PessoaPedir(p))

\* pedestrian p is about to run plano_decidir_movimento
EmDecisao(p) ==
    /\ pessoa[p].pc = "livre"
    /\ ProximaMeta(pessoa[p]) = "decidir_movimento"

\* C37: under fair scheduling every pedestrian is at its decision again and
\* again: from every reachable state (in a move, in the wait for a response,
\* after a granted, an ignored or a late response) it gets back to the start
\* of plano_decidir_movimento, whatever the vehicles do.
C37_VoltaADecidir ==
    \A p \in {NomePessoa[1]} : []<>EmDecisao(p)


\* the pedestrian is at its decision again after a second request, while a
\* vehicle it does not wait for yields to it
C37_DecideDepoisDaResposta ==
    \E p \in Pessoas : \E c \in Carros :
        /\ EmDecisao(p)
        /\ pessoa[p].emitidos >= 2
        /\ CedeA(c, p)
        /\ ~ pessoa[p].aguardando


\* ------------------------------------- properties: the published position
\* main.py:239-271 with one vehicle that is constructed at the end of the
\* horizontal road, respawns and is followed to the red light, and one
\* pedestrian that starts at P1 and is followed to P2 and across to P3, the
\* lights in their first phase
InitPosicao ==
    /\ carro \in [{NomeCarro[1]} ->
                    {NovoCarro(pt, VelocidadeCarro, TRUE) : pt \in {"H_END_L", "H_START_L"}}]
    /\ pessoa = [p \in {NomePessoa[1]} |-> NovaPessoa("P1", VelocidadePessoa, {"P2", "P3"})]
    /\ estado_compartilhado = EstadoInicial(PosicoesDe(carro) @@ PosicoesDe(pessoa))
    /\ relogio = -1
    /\ InitControlador

SpecPosicao == InitPosicao /\ [][Next]_vars

\* C38: whenever an agent is at a decision point (it runs no plan, so it is
\* not in the middle of a movement step), the entry <id>_pos of the shared
\* state equals the agent's own position.
C38_PosicaoPublicada ==
    /\ \A c \in Carros : carro[c].pc = "livre" => PosDe(c) = carro[c].posicao
    /\ \A p \in Pessoas : pessoa[p].pc = "livre" => PosDe(p) = pessoa[p].posicao


\* a vehicle that has left its move before the target (it stopped for the
\* crosswalk or for a request) is at a decision point off the coordinate of
\* its current waypoint, and its entry holds that position
C38_ParadoEntrePontos ==
    \E c \in Carros :
        /\ carro[c].pc = "livre"
        /\ carro[c].ponto_atual \in DOMAIN PONTOS_DE_PASSAGEM_CARROS
        /\ carro[c].posicao # PONTOS_DE_PASSAGEM_CARROS[carro[c].ponto_atual]
        /\ PosDe(c) = carro[c].posicao

=============================================================================
